---------------------------- MODULE Spec2Model ----------------------------
(***************************************************************************)
(* A model of the gateway's Snowflake connector                            *)
(* (connectors/snowflake/connector.go) and of the start command            *)
(* (cli/start.go).                                                         *)
(*                                                                         *)
(* Texts that the code inspects (SQL type names, table names) are          *)
(* sequences of one-character strings, so that strings.ToUpper,            *)
(* strings.Contains and strings.HasPrefix are computed, not assumed.       *)
(* Texts the code only passes on (SQL statements, error texts) are plain   *)
(* strings.                                                                *)
(***************************************************************************)
EXTENDS Integers, Sequences, FiniteSets, TLC

VARIABLES
    \* ---- type mapping (GuessColumnType, the type step of LoadsColumns)
    typeIn,      \* [dataType, numericScale]: one row of the column query
    typeOp,      \* "none" | "GuessColumnType" | "LoadsColumns", "done" when unused
    columnType,  \* the logical type computed, "none" before
    \* ---- the connector and the database behind its pool
    config,      \* Connector.config: [Database, Schema, IsReadonly]
    showColumns, \* the columns SHOW TABLES returns in this Snowflake version
    tables,      \* the tables of the schema, in SHOW TABLES order, each with
                 \* what the driver answers about it
    rowCount,    \* the number of rows the queried data table holds
    lastOp,      \* the connector operation that returned last, "none" before
    lastArgs,    \* its arguments
    lastRet,     \* what it returned: [value, err]
    lastCalls,   \* the driver calls it made, in order
    \* ---- one run of the start command (StartCommand's RunE)
    flags,       \* the command line flags
    env,         \* what the run meets: the YAML file, the step that fails
    pc,          \* the statement of RunE that runs next
    gw,          \* gw: the configuration in use
    created,     \* the connectors (connection pools) created, in order
    a,           \* the REST generator: [made, connector]
    srv,         \* the MCP generator: [made, connector, raw, tools, enriched]
    mux,         \* the handlers mounted on the HTTP mux
    serverAddresses, \* the list of server addresses
    events,      \* the steps of RunE done, in order
    exit,        \* how RunE ended: "" while it runs
    \* ---- decoding the connection entry of the configuration
    node,        \* value *yaml.Node: the connection entry
    decoded,     \* [done, c, err]: the Config UnmarshalYAML filled, and its error
    dsn,         \* [done, dsn]: what MakeDSN returned
    \* ---- the MCP server (mcpgenerator) and one session on it
    session,     \* "Fresh" | "Initialized"
    registry,    \* [set, endpoints, tools]: the endpoints given to SetTools and
                 \* the tool registry made of them
    response,    \* the JSON-RPC response to the last message handled
    queries,     \* the tool calls that reached the execution pipeline, in order
    \* ---- two cobra commands and their pre-run hooks (RegisterCommand)
    parentCmd,   \* parent: [PersistentPreRunE, PersistentPreRun, hasParent]
    childCmd,    \* child, likewise
    ran          \* the last command executed: [cmd, registered, hooks, err]

typeVars == <<typeIn, typeOp, columnType>>

connVars == <<config, showColumns, tables, rowCount, lastOp, lastArgs, lastRet, lastCalls>>

startVars == <<flags, env, pc, gw, created, a, srv, mux, serverAddresses, events, exit>>

configVars == <<node, decoded, dsn>>

\* The variables of the parts added after the connector and the start command.
mcpVars == <<session, registry, response, queries>>

cmdVars == <<parentCmd, childCmd, ran>>

otherVars == <<configVars, mcpVars, cmdVars>>

vars == <<typeVars, connVars, startVars, otherVars>>

-----------------------------------------------------------------------------
(* strings *)

LowerAlpha ==
    <<"a","b","c","d","e","f","g","h","i","j","k","l","m",
      "n","o","p","q","r","s","t","u","v","w","x","y","z">>

UpperAlpha ==
    <<"A","B","C","D","E","F","G","H","I","J","K","L","M",
      "N","O","P","Q","R","S","T","U","V","W","X","Y","Z">>

UpperChar(c) ==
    IF \E i \in DOMAIN LowerAlpha : LowerAlpha[i] = c
    THEN UpperAlpha[CHOOSE i \in DOMAIN LowerAlpha : LowerAlpha[i] = c]
    ELSE c

LowerChar(c) ==
    IF \E i \in DOMAIN UpperAlpha : UpperAlpha[i] = c
    THEN LowerAlpha[CHOOSE i \in DOMAIN UpperAlpha : UpperAlpha[i] = c]
    ELSE c

\* strings.ToUpper
ToUpper(s) == [i \in DOMAIN s |-> UpperChar(s[i])]

\* strings.ToLower (used to build inputs in other letter cases)
ToLower(s) == [i \in DOMAIN s |-> LowerChar(s[i])]

\* First letter upper case, the rest lower case (an input in mixed case).
TitleCase(s) == [i \in DOMAIN s |-> IF i = 1 THEN UpperChar(s[i]) ELSE LowerChar(s[i])]

\* strings.Contains
Contains(s, sub) ==
    \E i \in 0..(Len(s) - Len(sub)) : SubSeq(s, i + 1, i + Len(sub)) = sub

\* strings.HasPrefix
HasPrefix(s, prefix) ==
    /\ Len(s) >= Len(prefix)
    /\ SubSeq(s, 1, Len(prefix)) = prefix

Digits == <<"0","1","2","3","4","5","6","7","8","9">>

\* A number below 100 in decimal digits.
NatText(n) ==
    IF n < 10 THEN <<Digits[n + 1]>>
    ELSE <<Digits[(n \div 10) + 1], Digits[(n % 10) + 1]>>

IsDigit(c) == \E i \in DOMAIN Digits : Digits[i] = c

DigitValue(c) == (CHOOSE i \in DOMAIN Digits : Digits[i] = c) - 1

RECURSIVE SkipSpace(_, _)
SkipSpace(s, i) == IF i <= Len(s) /\ s[i] = " " THEN SkipSpace(s, i + 1) ELSE i

RECURSIVE ScanDigits(_, _, _)
ScanDigits(s, i, acc) ==
    IF i > Len(s) \/ ~IsDigit(s[i]) THEN acc
    ELSE ScanDigits(s, i + 1, 10 * acc + DigitValue(s[i]))

\* fmt.Sscanf(s, "%d", &n) with n = old before: leading spaces, a sign, then
\* decimal digits; without a digit the scan fails and n keeps its value.
SscanfInt(s, old) ==
    LET i == SkipSpace(s, 1)
        signed == i <= Len(s) /\ s[i] \in {"+", "-"}
        j == IF signed THEN i + 1 ELSE i
    IN IF j > Len(s) \/ ~IsDigit(s[j]) THEN old
       ELSE IF signed /\ s[i] = "-" THEN 0 - ScanDigits(s, j, 0)
       ELSE ScanDigits(s, j, 0)

-----------------------------------------------------------------------------
(* model.ColumnType *)

TypeString   == "string"
TypeNumber   == "number"
TypeInteger  == "integer"
TypeBoolean  == "boolean"
TypeDatetime == "datetime"
TypeArray    == "array"
TypeObject   == "object"

ColumnTypes ==
    {TypeString, TypeNumber, TypeInteger, TypeBoolean, TypeDatetime, TypeArray, TypeObject}

-----------------------------------------------------------------------------
(* the SQL type names GuessColumnType tests for *)

S_ARRAY   == <<"A","R","R","A","Y">>
S_OBJECT  == <<"O","B","J","E","C","T">>
S_VARIANT == <<"V","A","R","I","A","N","T">>
S_NUMBER  == <<"N","U","M","B","E","R">>
S_DECIMAL == <<"D","E","C","I","M","A","L">>
S_NUMERIC == <<"N","U","M","E","R","I","C">>
S_NUMBER_PAREN == <<"N","U","M","B","E","R","(">>
S_COMMA   == <<",">>

StringNames ==
    { <<"V","A","R","C","H","A","R">>,
      <<"C","H","A","R">>,
      <<"C","H","A","R","A","C","T","E","R">>,
      <<"S","T","R","I","N","G">>,
      <<"T","E","X","T">>,
      <<"B","I","N","A","R","Y">>,
      <<"V","A","R","B","I","N","A","R","Y">> }

NumberNames ==
    { S_NUMBER, S_DECIMAL, S_NUMERIC,
      <<"F","L","O","A","T">>,
      <<"F","L","O","A","T","4">>,
      <<"F","L","O","A","T","8">>,
      <<"D","O","U","B","L","E">>,
      <<"R","E","A","L">> }

IntegerNames ==
    { <<"I","N","T">>,
      <<"I","N","T","E","G","E","R">>,
      <<"B","I","G","I","N","T">>,
      <<"S","M","A","L","L","I","N","T">>,
      <<"T","I","N","Y","I","N","T">>,
      <<"B","Y","T","E","I","N","T">> }

BooleanNames ==
    { <<"B","O","O","L","E","A","N">> }

DatetimeNames ==
    { <<"D","A","T","E">>,
      <<"T","I","M","E">>,
      <<"D","A","T","E","T","I","M","E">>,
      <<"T","I","M","E","S","T","A","M","P">>,
      <<"T","I","M","E","S","T","A","M","P","_","L","T","Z">>,
      <<"T","I","M","E","S","T","A","M","P","_","N","T","Z">>,
      <<"T","I","M","E","S","T","A","M","P","_","T","Z">> }

-----------------------------------------------------------------------------
(* Connector.GuessColumnType *)

\* The mapping without the upper-casing of line 369 (a name in lower case
\* then matches nothing).
GuessColumnType_noUpper(sqlType) ==
    LET upperType == sqlType IN
    IF Contains(upperType, S_ARRAY) THEN TypeArray
    ELSE IF Contains(upperType, S_OBJECT) \/ Contains(upperType, S_VARIANT) THEN TypeObject
    ELSE IF upperType \in StringNames THEN TypeString
    ELSE IF upperType \in NumberNames THEN TypeNumber
    ELSE IF upperType \in IntegerNames THEN TypeInteger
    ELSE IF upperType \in BooleanNames THEN TypeBoolean
    ELSE IF upperType \in DatetimeNames THEN TypeDatetime
    ELSE IF HasPrefix(upperType, S_NUMBER_PAREN)
         THEN IF Contains(upperType, S_COMMA) THEN TypeNumber ELSE TypeInteger
    ELSE TypeString

\* The mapping with the final fallback returning the empty ColumnType.
GuessColumnType_noDefault(sqlType) ==
    LET upperType == ToUpper(sqlType) IN
    IF Contains(upperType, S_ARRAY) THEN TypeArray
    ELSE IF Contains(upperType, S_OBJECT) \/ Contains(upperType, S_VARIANT) THEN TypeObject
    ELSE IF upperType \in StringNames THEN TypeString
    ELSE IF upperType \in NumberNames THEN TypeNumber
    ELSE IF upperType \in IntegerNames THEN TypeInteger
    ELSE IF upperType \in BooleanNames THEN TypeBoolean
    ELSE IF upperType \in DatetimeNames THEN TypeDatetime
    ELSE IF HasPrefix(upperType, S_NUMBER_PAREN)
         THEN IF Contains(upperType, S_COMMA) THEN TypeNumber ELSE TypeInteger
    ELSE ""

GuessColumnType(sqlType) ==
    LET upperType == ToUpper(sqlType) IN
    \* Array types
    IF Contains(upperType, S_ARRAY) THEN TypeArray
    \* Object types
    ELSE IF Contains(upperType, S_OBJECT) \/ Contains(upperType, S_VARIANT) THEN TypeObject
    \* String, numeric, integer, boolean, date/time types: exact names
    ELSE IF upperType \in StringNames THEN TypeString
    ELSE IF upperType \in NumberNames THEN TypeNumber
    ELSE IF upperType \in IntegerNames THEN TypeInteger
    ELSE IF upperType \in BooleanNames THEN TypeBoolean
    ELSE IF upperType \in DatetimeNames THEN TypeDatetime
    \* NUMBER with precision: a comma means decimal places
    ELSE IF HasPrefix(upperType, S_NUMBER_PAREN)
         THEN IF Contains(upperType, S_COMMA) THEN TypeNumber ELSE TypeInteger
    \* Default to string for unknown types
    ELSE TypeString

\* sql.NullInt64: NULL, and a valid value
NullInt64 == [Valid |-> FALSE, Int64 |-> 0]

ValidInt64(n) == [Valid |-> TRUE, Int64 |-> n]

\* The type step of LoadsColumns without the scale test: every NUMBER is an
\* integer.
LoadsColumnType_anyScale(dataType, numericScale) ==
    IF ToUpper(dataType) = S_NUMBER
    THEN TypeInteger
    ELSE GuessColumnType(dataType)

\* The type step of LoadsColumns (lines 318-324): GuessColumnType, then
\* integer for a NUMBER whose NUMERIC_SCALE is valid and 0.
LoadsColumnType(dataType, numericScale) ==
    IF ToUpper(dataType) = S_NUMBER /\ numericScale.Valid /\ numericScale.Int64 = 0
    THEN TypeInteger
    ELSE GuessColumnType(dataType)

-----------------------------------------------------------------------------
(* values the driver hands back *)

\* A NULL text column (a nil sql.RawBytes, a sql.NullString that is not Valid)
NullString == [Valid |-> FALSE, String |-> << >>]

ValidString(s) == [Valid |-> TRUE, String |-> s]

\* A nil error
NoError == "nil"

\* context.Context: whether the caller cancels it, and after how many driver
\* calls of the operation have been started.
NoCancel == [cancels |-> FALSE, after |-> 0]

CancelAfter(k) == [cancels |-> TRUE, after |-> k]

\* A driver call that was handed ctx fails once ctx is cancelled; `calls` are
\* the calls started before it.
CtxDone(ctx, calls) == ctx.cancels /\ Len(calls) >= ctx.after

\* One driver call: the database/sql or sqlx function, the statement, whether
\* the caller's ctx was passed, and the argument bound.
DriverCall(fn, sql, ctx, arg) == [fn |-> fn, sql |-> sql, ctx |-> ctx, arg |-> arg]

-----------------------------------------------------------------------------
(* Connector.LoadsColumns *)

\* The capacity append gives a full slice (runtime growslice: doubling, for
\* the short slices modelled).
GrowCap(cap) == IF cap = 0 THEN 1 ELSE 2 * cap

\* The scan loop of lines 311-333 over the rows of the column query. Each
\* append of line 331 may move the slice to a new backing array; ptr[i] is the
\* array (by number) that columnMap's pointer to column i points into.
RECURSIVE ScanColumns(_, _, _)
ScanColumns(rows, i, acc) ==
    IF i > Len(rows) THEN acc
    ELSE IF ~rows[i].scanOk THEN [acc EXCEPT !.err = "scan"]
    ELSE LET grow == Len(acc.columns) = acc.cap
             array == IF grow THEN acc.array + 1 ELSE acc.array
             col == [Name |-> rows[i].name,
                     Type |-> LoadsColumnType(rows[i].dataType, rows[i].numericScale),
                     PrimaryKey |-> FALSE]
         IN ScanColumns(rows, i + 1,
                [columns |-> Append(acc.columns, col),
                 ptr |-> Append(acc.ptr, array),
                 cap |-> IF grow THEN GrowCap(acc.cap) ELSE acc.cap,
                 array |-> array,
                 err |-> NoError])

ScanColumnsStart == [columns |-> << >>, ptr |-> << >>, cap |-> 0, array |-> 0, err |-> NoError]

\* columnMap[name]: the entry written last for the name (line 332).
ColumnMapIndex(columns, name) ==
    IF \E i \in DOMAIN columns : columns[i].Name = name
    THEN CHOOSE i \in DOMAIN columns :
            /\ columns[i].Name = name
            /\ \A j \in DOMAIN columns : columns[j].Name = name => j <= i
    ELSE 0

\* The loop of lines 343-361 over the rows of SHOW PRIMARY KEYS: a row that
\* cannot be scanned ends it; a named column is marked through columnMap's
\* pointer, which reaches the returned slice only when it points into the
\* slice's final backing array.
RECURSIVE MarkPrimaryKeys(_, _, _, _)
MarkPrimaryKeys(scan, pkRows, i, columns) ==
    IF i > Len(pkRows) \/ ~pkRows[i].scanOk THEN columns
    ELSE LET columnName == pkRows[i].columnName
             k == ColumnMapIndex(scan.columns, columnName.String)
         IN IF columnName.Valid /\ columnName.String # "" /\ k # 0 /\ scan.ptr[k] = scan.array
            THEN MarkPrimaryKeys(scan, pkRows, i + 1, [columns EXCEPT ![k].PrimaryKey = TRUE])
            ELSE MarkPrimaryKeys(scan, pkRows, i + 1, columns)

\* What the driver answers about a table name: the catalog entry of the table
\* of that name, and no columns and no such object for any other name.
NoSuchTable ==
    [cols |-> [err |-> FALSE, rows |-> << >>], pk |-> [err |-> TRUE, rows |-> << >>]]

Catalog(tableName) ==
    IF \E i \in DOMAIN tables : tables[i].name = ValidString(tableName)
    THEN LET i == CHOOSE j \in DOMAIN tables : tables[j].name = ValidString(tableName)
         IN [cols |-> tables[i].cols, pk |-> tables[i].pk]
    ELSE NoSuchTable

\* LoadsColumns after `calls` driver calls of the running operation:
\* [columns, err, calls].
LoadsColumns(ctx, tableName, calls) ==
    LET cat == Catalog(tableName)
        calls1 == Append(calls, DriverCall("QueryContext", "SELECT columns", TRUE, tableName))
        calls2 == Append(calls1, DriverCall("QueryContext", "SHOW PRIMARY KEYS", TRUE, tableName))
        scan == ScanColumns(cat.cols.rows, 1, ScanColumnsStart)
    IN IF CtxDone(ctx, calls) \/ cat.cols.err
       THEN [columns |-> << >>, err |-> "unable to query columns", calls |-> calls1]
       ELSE IF scan.err # NoError
       THEN [columns |-> << >>, err |-> "scan", calls |-> calls1]
       ELSE IF CtxDone(ctx, calls1) \/ cat.pk.err
       \* If SHOW PRIMARY KEYS fails, continue without primary key information
       THEN [columns |-> scan.columns, err |-> NoError, calls |-> calls2]
       ELSE [columns |-> MarkPrimaryKeys(scan, cat.pk.rows, 1, scan.columns),
             err |-> NoError, calls |-> calls2]

-----------------------------------------------------------------------------
(* Connector.executeTableQuery and Connector.Discovery *)

\* The rows loop without the test of is_external.
RECURSIVE TableRows_keepExternal(_, _, _)
TableRows_keepExternal(ctx, i, acc) ==
    IF i > Len(tables) THEN acc
    ELSE
    LET row == tables[i]
        \* rowMap["name"].(string)
        nameOk == "name" \in showColumns /\ row.name.Valid
        tableName == row.name.String
        dropped == /\ "dropped_on" \in showColumns
                   /\ row.dropped_on.Valid
                   /\ row.dropped_on.String # << >>
        external == /\ "is_external" \in showColumns
                    /\ row.is_external.Valid
                    /\ row.is_external.String = <<"Y">>
        loaded == LoadsColumns(ctx, tableName, acc.calls)
        \* Parse the string to int
        parsed == IF "rows" \in showColumns /\ row.rows.Valid /\ row.rows.String # << >>
                  THEN SscanfInt(row.rows.String, 0)
                  ELSE 0
        \* If row count is still 0, fallback to COUNT query: c.db.Get, without ctx
        fallback == parsed = 0
        calls3 == IF fallback
                  THEN Append(loaded.calls, DriverCall("Get", "SELECT COUNT(*)", FALSE, tableName))
                  ELSE loaded.calls
        table == [Name |-> tableName,
                  Columns |-> loaded.columns,
                  RowCount |-> IF fallback THEN row.count.n ELSE parsed]
    IN IF ~row.scanOk
       THEN [tables |-> << >>, err |-> "failed to scan table row", calls |-> acc.calls]
       ELSE IF ~nameOk \/ dropped
       THEN TableRows_keepExternal(ctx, i + 1, acc)
       ELSE IF loaded.err # NoError
       THEN [tables |-> << >>, err |-> loaded.err, calls |-> loaded.calls]
       ELSE IF fallback /\ row.count.err
       THEN [tables |-> << >>, err |-> "unable to get row count", calls |-> calls3]
       ELSE TableRows_keepExternal(ctx, i + 1,
                [tables |-> Append(acc.tables, table), err |-> NoError, calls |-> calls3])

\* The loop of lines 177-256 over the rows of SHOW TABLES, from row i on;
\* acc is [tables, err, calls].
RECURSIVE TableRows(_, _, _)
TableRows(ctx, i, acc) ==
    IF i > Len(tables) THEN acc
    ELSE
    LET row == tables[i]
        \* rowMap["name"].(string)
        nameOk == "name" \in showColumns /\ row.name.Valid
        tableName == row.name.String
        dropped == /\ "dropped_on" \in showColumns
                   /\ row.dropped_on.Valid
                   /\ row.dropped_on.String # << >>
        external == /\ "is_external" \in showColumns
                    /\ row.is_external.Valid
                    /\ row.is_external.String = <<"Y">>
        loaded == LoadsColumns(ctx, tableName, acc.calls)
        \* Parse the string to int
        parsed == IF "rows" \in showColumns /\ row.rows.Valid /\ row.rows.String # << >>
                  THEN SscanfInt(row.rows.String, 0)
                  ELSE 0
        \* If row count is still 0, fallback to COUNT query: c.db.Get, without ctx
        fallback == parsed = 0
        calls3 == IF fallback
                  THEN Append(loaded.calls, DriverCall("Get", "SELECT COUNT(*)", FALSE, tableName))
                  ELSE loaded.calls
        table == [Name |-> tableName,
                  Columns |-> loaded.columns,
                  RowCount |-> IF fallback THEN row.count.n ELSE parsed]
    IN IF ~row.scanOk
       THEN [tables |-> << >>, err |-> "failed to scan table row", calls |-> acc.calls]
       ELSE IF ~nameOk \/ dropped \/ external
       THEN TableRows(ctx, i + 1, acc)
       ELSE IF loaded.err # NoError
       THEN [tables |-> << >>, err |-> loaded.err, calls |-> loaded.calls]
       ELSE IF fallback /\ row.count.err
       THEN [tables |-> << >>, err |-> "unable to get row count", calls |-> calls3]
       ELSE TableRows(ctx, i + 1,
                [tables |-> Append(acc.tables, table), err |-> NoError, calls |-> calls3])

\* executeTableQuery: SHOW TABLES with ctx, then the loop. showFails: the
\* driver fails the statement for a reason of its own.
executeTableQuery(ctx, showFails) ==
    LET calls1 == <<DriverCall("QueryContext", "SHOW TABLES IN SCHEMA", TRUE, config.Schema)>>
    IN IF CtxDone(ctx, << >>) \/ showFails
       THEN [tables |-> << >>, err |-> "show tables", calls |-> calls1]
       ELSE TableRows(ctx, 1, [tables |-> << >>, err |-> NoError, calls |-> calls1])

\* Discovery comparing the table's name as written with the upper-cased
\* filter entries.
Discovery_nameNotUpper(ctx, tablesList, showFails) ==
    LET got == executeTableQuery(ctx, showFails)
        tableSet == {ToUpper(tablesList[i]) : i \in DOMAIN tablesList}
        InSet(table) == table.Name \in tableSet
    IN IF Len(tablesList) > 0 /\ got.err = NoError
       THEN [got EXCEPT !.tables = SelectSeq(got.tables, InSet)]
       ELSE got

\* Discovery: [tables, err, calls]
Discovery(ctx, tablesList, showFails) ==
    LET got == executeTableQuery(ctx, showFails)
        \* Create a map for quick lookups
        tableSet == {ToUpper(tablesList[i]) : i \in DOMAIN tablesList}
        InSet(table) == ToUpper(table.Name) \in tableSet
    IN IF Len(tablesList) > 0
       THEN IF got.err # NoError
            THEN got
            \* Filter tables
            ELSE [got EXCEPT !.tables = SelectSeq(got.tables, InSet)]
       \* If no specific tables are requested, get all tables
       ELSE got

-----------------------------------------------------------------------------
(* castx.ParamsE, from the specification's "Parameter Coercion" *)

\* A request value as it arrives, and a value coerced to a logical type.
RawValue(text) == [type |-> "raw", text |-> text]

Coerced(type, text) == [type |-> type, text |-> text]

\* Decimal texts among the request values used.
DecimalTexts == {"1", "10"}

\* The coercion of one value: [ok, value].
Coerce(type, v) ==
    IF type = TypeInteger
    THEN IF v.text \in DecimalTexts
         THEN [ok |-> TRUE, value |-> Coerced(TypeInteger, v.text)]
         ELSE [ok |-> FALSE, value |-> v]
    ELSE [ok |-> TRUE, value |-> Coerced(type, v.text)]

\* Whether the declared parameter gets a value, and whether that fails.
ParamMissing(param, raw) ==
    param.Name \notin DOMAIN raw /\ ~param.HasDefault /\ param.Required

ParamBad(param, raw) ==
    /\ ~ParamMissing(param, raw)
    /\ \/ param.Name \in DOMAIN raw /\ ~Coerce(param.Type, raw[param.Name]).ok
       \/ param.Name \notin DOMAIN raw /\ param.HasDefault
            /\ ~Coerce(param.Type, RawValue(param.Default)).ok

ParamValue(param, raw) ==
    IF param.Name \in DOMAIN raw THEN Coerce(param.Type, raw[param.Name]).value
    ELSE IF param.HasDefault THEN Coerce(param.Type, RawValue(param.Default)).value
    ELSE Coerced("null", "")

\* ParamsE(endpoint, raw): [value, err]. The mapping holds the declared
\* parameters only; keys of raw that are not declared are dropped.
ParamsE(endpoint, raw) ==
    LET declared == {endpoint.Params[i] : i \in DOMAIN endpoint.Params}
    IN IF \E q \in declared : ParamMissing(q, raw)
       THEN [value |-> << >>, err |-> "ErrMissingParam"]
       ELSE IF \E q \in declared : ParamBad(q, raw)
       THEN [value |-> << >>, err |-> "ErrBadParam"]
       ELSE [value |-> [n \in {q.Name : q \in declared} |->
                           ParamValue(CHOOSE q \in declared : q.Name = n, raw)],
             err |-> NoError]

-----------------------------------------------------------------------------
(* Connector.Query, Connector.Sample, Connector.Ping *)

\* A statement that changes the table it names.
Mutating(sql) == sql = "DELETE FROM employees"

\* The rows a statement yields from a table of n rows.
ResultRows(sql, n) ==
    IF Mutating(sql) THEN << >> ELSE [i \in 1..n |-> [ID |-> i]]

\* The rows left in the table once the driver has executed the statement.
RowsAfter(sql, n) == IF Mutating(sql) THEN 0 ELSE n

\* What the driver does to a statement: "ok", "queryFails" (the statement is
\* not executed), "scanFails" (executed; the first row cannot be scanned).
DriverOutcomes == {"ok", "queryFails", "scanFails"}

\* Query handing the driver the request's own mapping.
Query_rawParams(ctx, endpoint, params, outcome) ==
    LET processed == ParamsE(endpoint, params)
        calls == <<DriverCall("NamedQuery", endpoint.Query, FALSE, params)>>
        rows == ResultRows(endpoint.Query, rowCount)
    IN IF processed.err # NoError
       THEN [value |-> << >>, err |-> "unable to process params", calls |-> << >>,
             rowCount |-> rowCount]
       ELSE IF outcome = "queryFails"
       THEN [value |-> << >>, err |-> "unable to query db", calls |-> calls,
             rowCount |-> rowCount]
       ELSE IF outcome = "scanFails" /\ Len(rows) > 0
       THEN [value |-> << >>, err |-> "unable to scan row", calls |-> calls,
             rowCount |-> RowsAfter(endpoint.Query, rowCount)]
       ELSE [value |-> rows, err |-> NoError, calls |-> calls,
             rowCount |-> RowsAfter(endpoint.Query, rowCount)]

\* Query: [value, err, calls, rowCount]; rowCount is what the table holds
\* afterwards. c.config.IsReadonly is not consulted, and ctx is not passed on.
Query(ctx, endpoint, params, outcome) ==
    LET processed == ParamsE(endpoint, params)
        calls == <<DriverCall("NamedQuery", endpoint.Query, FALSE, processed.value)>>
        rows == ResultRows(endpoint.Query, rowCount)
    IN IF processed.err # NoError
       THEN [value |-> << >>, err |-> "unable to process params", calls |-> << >>,
             rowCount |-> rowCount]
       ELSE IF outcome = "queryFails"
       THEN [value |-> << >>, err |-> "unable to query db", calls |-> calls,
             rowCount |-> rowCount]
       ELSE IF outcome = "scanFails" /\ Len(rows) > 0
       THEN [value |-> << >>, err |-> "unable to scan row", calls |-> calls,
             rowCount |-> RowsAfter(endpoint.Query, rowCount)]
       ELSE [value |-> rows, err |-> NoError, calls |-> calls,
             rowCount |-> RowsAfter(endpoint.Query, rowCount)]

\* The LIMIT of the statement Sample builds.
SampleLimit == 5

\* Sample whose statement has no LIMIT.
Sample_noLimit(ctx, table, outcome) ==
    LET calls == <<DriverCall("NamedQuery", "SELECT * FROM %s", FALSE, table.Name)>>
        rows == [i \in 1..rowCount |-> [ID |-> i]]
    IN IF outcome = "queryFails"
       THEN [value |-> << >>, err |-> "unable to query db", calls |-> calls]
       ELSE IF outcome = "scanFails" /\ rowCount > 0
       THEN [value |-> << >>, err |-> "unable to scan row", calls |-> calls]
       ELSE [value |-> rows, err |-> NoError, calls |-> calls]

\* Sample: SELECT * FROM <table> LIMIT 5 through NamedQuery, without ctx.
Sample(ctx, table, outcome) ==
    LET calls == <<DriverCall("NamedQuery", "SELECT * FROM %s LIMIT 5", FALSE, table.Name)>>
        n == IF rowCount < SampleLimit THEN rowCount ELSE SampleLimit
        rows == [i \in 1..n |-> [ID |-> i]]
    IN IF outcome = "queryFails"
       THEN [value |-> << >>, err |-> "unable to query db", calls |-> calls]
       ELSE IF outcome = "scanFails" /\ n > 0
       THEN [value |-> << >>, err |-> "unable to scan row", calls |-> calls]
       ELSE [value |-> rows, err |-> NoError, calls |-> calls]

\* Ping: PingContext(ctx)
Ping(ctx, outcome) ==
    LET calls == <<DriverCall("PingContext", "", TRUE, "")>>
    IN IF CtxDone(ctx, << >>) \/ outcome = "queryFails"
       THEN [err |-> "ping", calls |-> calls]
       ELSE [err |-> NoError, calls |-> calls]

-----------------------------------------------------------------------------
(* inputs of the type mapping *)

\* The largest NUMERIC_SCALE tried.
MaxScale == 2

Precisions == {10, 38}

\* The names with a precision and scale: NUMBER, DECIMAL, NUMERIC.
DecimalNames == {S_NUMBER, S_DECIMAL, S_NUMERIC}

\* The float names among the numeric names of line 389.
FloatNames == NumberNames \ DecimalNames

FamilyNames ==
    {S_ARRAY, S_OBJECT, S_VARIANT} \cup StringNames \cup NumberNames
        \cup IntegerNames \cup BooleanNames \cup DatetimeNames

\* Names of no family; the empty text is one.
UnknownNames ==
    { << >>,
      <<"G","E","O","G","R","A","P","H","Y">>,
      <<"B","O","O","L">>,
      <<"F","I","X","E","D">>,
      <<"D","O","U","B","L","E"," ","P","R","E","C","I","S","I","O","N">>,
      <<"V","A","R","C","H","A","R","(","1","0","0",")">> }

CaseVariants(s) == {s, ToLower(s), TitleCase(s)}

\* base(p): the scale is omitted and is 0.
WithPrecision(base, p) == base \o <<"(">> \o NatText(p) \o <<")">>

\* base(p,s)
WithPrecisionScale(base, p, s) ==
    base \o <<"(">> \o NatText(p) \o <<",">> \o NatText(s) \o <<")">>

Scales == {NullInt64} \cup {ValidInt64(k) : k \in 0..MaxScale}

\* A bare name with the NUMERIC_SCALE the column query reports beside it.
BareInputs ==
    { [dataType |-> v, numericScale |-> sc, parameterized |-> FALSE] :
        v \in UNION {CaseVariants(n) : n \in FamilyNames \cup UnknownNames},
        sc \in Scales }

\* A parameterized decimal name; numericScale is the scale its text declares.
ParameterizedInputs ==
    UNION { { [dataType |-> WithPrecision(b, p),
               numericScale |-> ValidInt64(0), parameterized |-> TRUE] }
            \cup { [dataType |-> WithPrecisionScale(b, p, k),
                    numericScale |-> ValidInt64(k), parameterized |-> TRUE] :
                        k \in 0..MaxScale } :
            b \in UNION {CaseVariants(n) : n \in DecimalNames}, p \in Precisions }

TypeInputs == BareInputs \cup ParameterizedInputs

-----------------------------------------------------------------------------
(* the schemas, tables and requests tried *)

\* The most tables a schema holds.
MaxTables == 2

\* The most columns the column query returns.
MaxColumns == 3

\* The most rows SHOW PRIMARY KEYS returns.
MaxPkRows == 2

\* The most rows the queried data table holds.
MaxRows == 6

\* The latest driver call after which the caller's ctx is cancelled.
MaxCancelAfter == 1

\* All sequences over S of length at most n.
RECURSIVE SeqsUpTo(_, _)
SeqsUpTo(S, n) ==
    IF n = 0 THEN {<< >>}
    ELSE LET shorter == SeqsUpTo(S, n - 1)
         IN shorter \cup {Append(q, x) : q \in {r \in shorter : Len(r) = n - 1}, x \in S}

Ctxs == {NoCancel} \cup {CancelAfter(k) : k \in 0..MaxCancelAfter}

\* The columns of SHOW TABLES: a version that returns all four, and one that
\* returns the name only.
AllShowColumns == {"name", "dropped_on", "is_external", "rows"}

ShowColumnSets == {AllShowColumns, {"name"}}

ColRow(name, dataType, numericScale) ==
    [name |-> name, dataType |-> dataType, numericScale |-> numericScale, scanOk |-> TRUE]

S_VARCHAR == <<"V","A","R","C","H","A","R">>

\* The i-th column of a table: numbers of scale 0 and texts in turn.
ColNames == <<"ID", "NAME", "AGE", "EMAIL", "SALARY", "CITY">>

NthColumn(i) ==
    IF i % 2 = 1 THEN ColRow(ColNames[i], S_NUMBER, ValidInt64(0))
    ELSE ColRow(ColNames[i], S_VARCHAR, NullInt64)

\* The column query's answers: an error, n scanned rows, or n rows the last of
\* which cannot be scanned (the rows after it are never read).
ColsOutcomes ==
    {[err |-> TRUE, rows |-> << >>]}
        \cup {[err |-> FALSE, rows |-> [i \in 1..n |-> NthColumn(i)]] : n \in 0..MaxColumns}
        \cup {[err |-> FALSE,
               rows |-> [i \in 1..n |-> IF i = n THEN [NthColumn(i) EXCEPT !.scanOk = FALSE]
                                        ELSE NthColumn(i)]] : n \in 1..MaxColumns}

PkRow(columnName) == [columnName |-> columnName, scanOk |-> TRUE]

BadPkRow == [columnName |-> [Valid |-> FALSE, String |-> ""], scanOk |-> FALSE]

\* column_name of a SHOW PRIMARY KEYS row: a column, the empty text, NULL, or
\* a name the table does not have.
PkNames ==
    {[Valid |-> TRUE, String |-> n] : n \in {"ID", "NAME", "AGE", "", "ZZ"}}
        \cup {[Valid |-> FALSE, String |-> ""]}

\* SHOW PRIMARY KEYS' answers: an error, scanned rows, or scanned rows and then
\* one that cannot be scanned.
PkOutcomes ==
    {[err |-> TRUE, rows |-> << >>]}
        \cup {[err |-> FALSE, rows |-> q] : q \in SeqsUpTo({PkRow(n) : n \in PkNames}, MaxPkRows)}
        \cup {[err |-> FALSE, rows |-> Append(q, BadPkRow)] :
                q \in SeqsUpTo({PkRow(n) : n \in PkNames}, MaxPkRows - 1)}

TwoColumns == [err |-> FALSE, rows |-> <<NthColumn(1), NthColumn(2)>>]

KeyOnID == [err |-> FALSE, rows |-> <<PkRow([Valid |-> TRUE, String |-> "ID"])>>]

\* A table as SHOW TABLES lists it, with the driver's answers about it.
NormalTable(name) ==
    [name |-> ValidString(name),
     dropped_on |-> NullString,
     is_external |-> ValidString(<<"N">>),
     rows |-> ValidString(<<"2">>),
     scanOk |-> TRUE,
     cols |-> TwoColumns,
     pk |-> KeyOnID,
     count |-> [err |-> FALSE, n |-> 2]]

\* The kinds of table a schema holds: a plain one, a dropped one, an external
\* one, one whose columns cannot be queried, one whose row count is not in
\* the metadata (counted as 3), and a row without a name.
TableKinds(name) ==
    { NormalTable(name),
      [NormalTable(name) EXCEPT !.dropped_on = ValidString(<<"2","0","2","4">>)],
      [NormalTable(name) EXCEPT !.is_external = ValidString(<<"Y">>)],
      [NormalTable(name) EXCEPT !.cols = [err |-> TRUE, rows |-> << >>]],
      [NormalTable(name) EXCEPT !.rows = ValidString(<<"0">>), !.count = [err |-> FALSE, n |-> 3]],
      [NormalTable(name) EXCEPT !.name = NullString] }

T_ab == <<"a","b">>
T_AB == <<"A","B">>
T_Cd == <<"C","d">>

\* The names of the tables of a schema, in the order SHOW TABLES lists them
\* (Snowflake keeps the case of a quoted identifier).
TableNames == <<T_ab, T_Cd, T_AB, <<"e","F">> >>

\* Filter lists: none, names in another case than the table's, a name no
\* table has, and lists of two.
FilterLists ==
    { << >>,
      << <<"A","b">> >>,
      << <<"c","D">> >>,
      << <<"z","z">> >>,
      << <<"A","B">>, <<"C","D">> >>,
      << <<"z","z">>, <<"a","b">> >>,
      << <<"a","b">>, <<"A","B">> >> }

\* Schemas: up to MaxTables tables of any kind.
Schemas ==
    UNION { { q \in [1..n -> UNION {TableKinds(TableNames[i]) : i \in 1..n}] :
                \A i \in 1..n : q[i] \in TableKinds(TableNames[i]) } : n \in 0..MaxTables }

\* Tables by what is known of their row count: 2 rows in the metadata, an
\* empty table (metadata 0, counted 0), no row count in the metadata (NULL;
\* counted 2), the same two when COUNT(*) fails, and a table whose columns
\* cannot be queried.
RowCountKinds(name) ==
    { NormalTable(name),
      [NormalTable(name) EXCEPT !.rows = ValidString(<<"0">>), !.count = [err |-> FALSE, n |-> 0]],
      [NormalTable(name) EXCEPT !.rows = NullString],
      [NormalTable(name) EXCEPT !.rows = ValidString(<<"0">>), !.count = [err |-> TRUE, n |-> 0]],
      [NormalTable(name) EXCEPT !.rows = NullString, !.count = [err |-> TRUE, n |-> 0]],
      [NormalTable(name) EXCEPT !.cols = [err |-> TRUE, rows |-> << >>]] }

RowCountSchemas ==
    UNION { { q \in [1..n -> UNION {RowCountKinds(TableNames[i]) : i \in 1..n}] :
                \A i \in 1..n : q[i] \in RowCountKinds(TableNames[i]) } : n \in 0..MaxTables }

DefaultConfig == [Database |-> "GOCI", Schema |-> "PUBLIC", IsReadonly |-> FALSE]

Param(name, type, required, hasDefault, default) ==
    [Name |-> name, Type |-> type, Required |-> required,
     HasDefault |-> hasDefault, Default |-> default]

\* Endpoints: a select with a required integer parameter, a select with a
\* defaulted one, and a mutating statement without parameters.
Endpoints ==
    { [Query |-> "SELECT ID, NAME FROM employees WHERE ID = :user_id",
       Params |-> <<Param("user_id", TypeInteger, TRUE, FALSE, "")>>],
      [Query |-> "SELECT ID FROM employees LIMIT :limit",
       Params |-> <<Param("limit", TypeInteger, FALSE, TRUE, "10")>>],
      [Query |-> "DELETE FROM employees", Params |-> << >>] }

\* Request mappings: any of two keys, each declared by one endpoint only.
RawKeys == {"user_id", "limit"}

RawParams ==
    UNION { [ks -> {RawValue("1"), RawValue("x")}] : ks \in SUBSET RawKeys }

-----------------------------------------------------------------------------
(* the start command: flags, configuration and what a run meets *)

\* The most enrichers the plugin list holds.
MaxEnrichers == 1

S_snowflake == <<"s","n","o","w","f","l","a","k","e">>

\* strings.Split(s, sep)[0]: the text before the first sep, all of s without.
RECURSIVE SplitFirstFrom(_, _, _)
SplitFirstFrom(s, sep, i) ==
    IF i > Len(s) THEN s
    ELSE IF s[i] = sep THEN SubSeq(s, 1, i - 1)
    ELSE SplitFirstFrom(s, sep, i + 1)

SplitFirst(s, sep) == SplitFirstFrom(s, sep, 1)

\* strings.Split(s, sep): the pieces between the separators, empty ones kept.
RECURSIVE Split(_, _)
Split(s, sep) ==
    LET head == SplitFirst(s, sep)
    IN IF Len(head) = Len(s) THEN <<s>>
       ELSE <<head>> \o Split(SubSeq(s, Len(head) + 2, Len(s)), sep)

\* strings.TrimSpace
RECURSIVE TrimSpace(_)
TrimSpace(s) ==
    IF s = << >> THEN s
    ELSE IF Head(s) = " " THEN TrimSpace(Tail(s))
    ELSE IF s[Len(s)] = " " THEN TrimSpace(SubSeq(s, 1, Len(s) - 1))
    ELSE s

\* --connection-string values: none, and a Snowflake DSN.
DSNs == { << >>, S_snowflake \o <<":","/","/","u","@","h">> }

\* --type values: none, and a type no connector registers.
Types == { << >>, <<"d","b","2">> }

\* --servers values: none, two servers with a blank after the comma, and one
\* with an empty entry.
ServerLists ==
    { << >>,
      <<"h","1",","," ","h","2">>,
      <<"h","1",",">> }

\* --addr values: a port alone, and a host with a port.
Addrs == { <<":","9","0">>, <<"h",":","8","0">> }

Prefixes == { << >>, <<"v","1">> }

\* The flags of one run. --type and --read-only are read only beside a
\* connection string.
FlagSets ==
    { f \in [dbDSN : DSNs, typ : Types, roMode : BOOLEAN, servers : ServerLists,
             addr : Addrs, prefix : Prefixes, rawMode : BOOLEAN,
             disableSwagger : BOOLEAN, enableMCP : BOOLEAN, enableRestAPI : BOOLEAN] :
        f.dbDSN = << >> => (f.typ = << >> /\ f.roMode) }

\* The steps of RunE that can fail.
FailPoints ==
    { "os.ReadFile", "FromYaml", "restgenerator.New connector", "restgenerator.New",
      "RegisterRoutes", "mcpgenerator.New", "connectors.New", "SetConnector",
      "plugins.Plugins" }

\* What a run meets: the endpoints and enrichers the YAML file declares, and
\* the step that fails, if one does.
Envs ==
    [endpoints : {<< >>, <<"list_employees">>}, enrichers : 0..MaxEnrichers,
     failAt : FailPoints \cup {"none"}]

NilConfig ==
    [Type |-> << >>, Connection |-> [conn_string |-> << >>, is_readonly |-> FALSE],
     Endpoints |-> << >>, Plugins |-> 0]

NilREST == [made |-> FALSE, connector |-> 0]

NilMCP == [made |-> FALSE, connector |-> 0, raw |-> FALSE, tools |-> << >>, enriched |-> 0]

\* The types with a registered factory (snowflake's init registers one).
RegisteredTypes == {S_snowflake}

\* connectors.New(type, connection): the factory of the type makes a new
\* connector with a pool of its own (sqlx.Open); a missing type is
\* ErrUnknownBackend. [ok, connector]
ConnectorsNew(type, connection, pools, openFails) ==
    IF type \notin RegisteredTypes \/ openFails
    THEN [ok |-> FALSE, connector |-> [id |-> 0, type |-> type, connection |-> connection]]
    ELSE [ok |-> TRUE,
          connector |-> [id |-> Len(pools) + 1, type |-> type, connection |-> connection]]

-----------------------------------------------------------------------------
(* Config.UnmarshalYAML and Config.MakeDSN *)

ZeroConfig ==
    [Account |-> "", Database |-> "", User |-> "", Password |-> "", Warehouse |-> "",
     Schema |-> "", Role |-> "", ConnString |-> "", IsReadonly |-> FALSE]

\* A YAML node: a scalar (of tag !!str, !!int or !!null) with its text, a
\* mapping with the Config it spells out, or a sequence.
Scalar(tag, text) == [kind |-> "scalar", tag |-> tag, text |-> text, fields |-> ZeroConfig]

Mapping(fields) == [kind |-> "mapping", tag |-> "!!map", text |-> "", fields |-> fields]

Sequence == [kind |-> "sequence", tag |-> "!!seq", text |-> "", fields |-> ZeroConfig]

\* value.Decode(&connString): [ok, out]. yaml.v3 gives a scalar's text to a
\* string, leaves the string empty on null, and refuses a mapping or sequence.
DecodeString(n) ==
    IF n.kind # "scalar" THEN [ok |-> FALSE, out |-> ""]
    ELSE IF n.tag = "!!null" THEN [ok |-> TRUE, out |-> ""]
    ELSE [ok |-> TRUE, out |-> n.text]

\* value.Decode(&alias): [ok, out]. A mapping fills the fields by their yaml
\* names, null leaves the zero Config, any other node is refused.
DecodeAlias(n) ==
    IF n.kind = "mapping" THEN [ok |-> TRUE, out |-> n.fields]
    ELSE IF n.kind = "scalar" /\ n.tag = "!!null" THEN [ok |-> TRUE, out |-> ZeroConfig]
    ELSE [ok |-> FALSE, out |-> ZeroConfig]

\* UnmarshalYAML taking the mapping branch for every node.
UnmarshalYAML_mappingOnly(c, value) ==
    LET alias == DecodeAlias(value)
    IN IF ~alias.ok THEN [c |-> c, err |-> "yaml: cannot unmarshal"]
       ELSE [c |-> alias.out, err |-> NoError]

\* (c *Config) UnmarshalYAML(value): [c, err]
UnmarshalYAML(c, value) ==
    LET connString == DecodeString(value)
        alias == DecodeAlias(value)
    IN \* Try to unmarshal as a string (connection string)
       IF connString.ok /\ Len(connString.out) > 0
       THEN [c |-> [c EXCEPT !.ConnString = connString.out], err |-> NoError]
       \* If that didn't work, try to unmarshal as a full config object
       ELSE IF ~alias.ok THEN [c |-> c, err |-> "yaml: cannot unmarshal"]
       ELSE [c |-> alias.out, err |-> NoError]

\* (c Config) MakeDSN(); its error is always nil.
MakeDSN(c) ==
    \* If connection string is provided, use it directly
    IF c.ConnString # "" THEN c.ConnString
    \* Otherwise, build the DSN from individual fields
    ELSE c.User \o ":" \o c.Password \o "@" \o c.Account \o "/" \o c.Database \o "/"
            \o c.Schema \o "?warehouse=" \o c.Warehouse \o "&role=" \o c.Role

\* The connection entries tried: texts, a number, an empty text, null, a
\* sequence, and mappings with and without each field.
YamlNodes ==
    { Scalar("!!str", "u:p@acct/GOCI/PUBLIC?warehouse=WH&role=R"),
      Scalar("!!str", "snowflake://x"),
      Scalar("!!int", "123"),
      Scalar("!!str", ""),
      Scalar("!!null", ""),
      Sequence }
        \cup { Mapping(f) :
                f \in [Account : {"acct"}, Database : {"", "GOCI"}, User : {"", "u"},
                       Password : {"", "p"}, Warehouse : {"WH"}, Schema : {"PUBLIC"},
                       Role : {"", "R"}, ConnString : {"", "snowflake://x"},
                       IsReadonly : BOOLEAN] }

-----------------------------------------------------------------------------
(* the MCP server: SetTools and the JSON-RPC messages, from the
   specification's "MCP Generator & SSE Transport" *)

\* The most tool calls a session makes.
MaxToolCalls == 2

\* JSON-RPC error codes.
ServerNotInitialized == 0 - 32002

MethodNotFound == 0 - 32601

InvalidParams == 0 - 32602

\* The name of an endpoint's tool: its mcpMethod, or group/httpPath without one.
ToolName(endpoint) ==
    IF endpoint.MCPMethod # "" THEN endpoint.MCPMethod
    ELSE endpoint.Group \o endpoint.HTTPPath

\* SetTools leaving the descriptions out.
ToolsOf_noDescription(endpoints) ==
    [i \in DOMAIN endpoints |->
        [name |-> ToolName(endpoints[i]), description |-> "",
         params |-> endpoints[i].Params]]

\* SetTools(endpoints): one tool per endpoint, with the endpoint's description
\* verbatim and its parameters as the input schema.
ToolsOf(endpoints) ==
    [i \in DOMAIN endpoints |->
        [name |-> ToolName(endpoints[i]), description |-> endpoints[i].Description,
         params |-> endpoints[i].Params]]

NoResponse == [id |-> 0, method |-> "", error |-> 0, tools |-> << >>, called |-> ""]

Result(id, method, tools, called) ==
    [id |-> id, method |-> method, error |-> 0, tools |-> tools, called |-> called]

ErrorResponse(id, method, code) ==
    [id |-> id, method |-> method, error |-> code, tools |-> << >>, called |-> ""]

\* HandleMessage that serves a session before its initialize.
HandleMessage_noInitCheck(id, method, tool) ==
    LET known == \E i \in DOMAIN registry.tools : registry.tools[i].name = tool
        stays(r) == [session |-> session, response |-> r, queries |-> queries]
    IN IF method = "initialize"
       THEN [session |-> "Initialized", response |-> Result(id, method, << >>, ""),
             queries |-> queries]
       ELSE IF method = "tools/list"
       THEN stays(Result(id, method, registry.tools, ""))
       ELSE IF method = "tools/call"
       THEN IF known
            THEN [session |-> session, response |-> Result(id, method, << >>, tool),
                  queries |-> Append(queries, tool)]
            ELSE stays(ErrorResponse(id, method, InvalidParams))
       ELSE stays(ErrorResponse(id, method, MethodNotFound))

\* HandleMessage: [session, response, queries] after one JSON-RPC request.
\* Before initialize every other method is refused with -32002.
HandleMessage(id, method, tool) ==
    LET known == \E i \in DOMAIN registry.tools : registry.tools[i].name = tool
        stays(r) == [session |-> session, response |-> r, queries |-> queries]
    IN IF method = "initialize"
       THEN [session |-> "Initialized", response |-> Result(id, method, << >>, ""),
             queries |-> queries]
       ELSE IF session = "Fresh"
       THEN stays(ErrorResponse(id, method, ServerNotInitialized))
       ELSE IF method = "tools/list"
       THEN stays(Result(id, method, registry.tools, ""))
       ELSE IF method = "tools/call"
       THEN IF known
            THEN [session |-> session, response |-> Result(id, method, << >>, tool),
                  queries |-> Append(queries, tool)]
            ELSE stays(ErrorResponse(id, method, InvalidParams))
       ELSE stays(ErrorResponse(id, method, MethodNotFound))

\* The endpoints installed: the one of TestSetToolsIncludesDescription, one
\* without mcpMethod or description, one with marks in its description.
McpEndpoints ==
    { [MCPMethod |-> "test_method", Description |-> "sample description",
       Group |-> "test", HTTPPath |-> "/test", Params |-> <<[Name |-> "id", Type |-> "string"]>>],
      [MCPMethod |-> "", Description |-> "", Group |-> "employees",
       HTTPPath |-> "/employees/{id}", Params |-> << >>],
      [MCPMethod |-> "list_employees", Description |-> "List <b>all</b> \"employees\" ",
       Group |-> "employees", HTTPPath |-> "/employees", Params |-> << >>] }

\* Endpoint lists: no endpoint twice.
EndpointLists ==
    { q \in SeqsUpTo(McpEndpoints, Cardinality(McpEndpoints)) :
        \A i, j \in DOMAIN q : i # j => q[i] # q[j] }

Methods == {"initialize", "tools/list", "tools/call", "resources/list"}

RequestIds == {1, 2}

-----------------------------------------------------------------------------
(* RegisterCommand and the pre-run hooks of cobra commands *)

\* A hook function is the sequence of the declared hooks it calls, in order,
\* stopping at the first that returns an error; nil is the empty sequence.
\* A PersistentPreRun hook returns nothing, so it cannot fail.
Hook(owner, form, fails) ==
    <<[owner |-> owner, form |-> form, fails |-> fails, wrapped |-> FALSE]>>

NilHook == << >>

\* The hooks a command may declare as PersistentPreRunE and as PersistentPreRun.
PreRunEs(owner) ==
    {NilHook} \cup {Hook(owner, "PersistentPreRunE", fails) : fails \in BOOLEAN}

PreRuns(owner) == {NilHook, Hook(owner, "PersistentPreRun", FALSE)}

Commands(owner) ==
    [PersistentPreRunE : PreRunEs(owner), PersistentPreRun : PreRuns(owner), hasParent : {FALSE}]

NoCommand == [PersistentPreRunE |-> NilHook, PersistentPreRun |-> NilHook, hasParent |-> FALSE]

NotRun == [cmd |-> "none", registered |-> FALSE, hooks |-> << >>, err |-> NoError]

\* Lines 205-208: the parent's function called inside the child's; its error
\* is returned wrapped.
WrapParent(parentPpre) == [i \in DOMAIN parentPpre |-> [parentPpre[i] EXCEPT !.wrapped = TRUE]]

\* RegisterCommand(parent, child): the child as it is afterwards (the parent
\* only gains the child, line 214).
RegisterCommand(parent, child) ==
    LET parentPpre == parent.PersistentPreRunE
        \* lines 194-199: a PersistentPreRun is called by a function returning nil
        childPpre == IF child.PersistentPreRunE = NilHook /\ child.PersistentPreRun # NilHook
                     THEN child.PersistentPreRun
                     ELSE child.PersistentPreRunE
    IN IF childPpre # NilHook
       THEN [child EXCEPT !.PersistentPreRunE = WrapParent(parentPpre) \o childPpre,
                          !.hasParent = TRUE]
       ELSE IF parentPpre # NilHook
       THEN [child EXCEPT !.PersistentPreRunE = parentPpre, !.hasParent = TRUE]
       ELSE [child EXCEPT !.hasParent = TRUE]

\* Calling a hook function: [hooks, err], the declared hooks executed in
\* order and the error returned.
RECURSIVE CallFrom(_, _, _)
CallFrom(fn, i, done) ==
    IF i > Len(fn) THEN [hooks |-> done, err |-> NoError]
    ELSE IF fn[i].fails
    THEN [hooks |-> Append(done, fn[i].owner),
          err |-> IF fn[i].wrapped THEN "cannot process parent PersistentPreRunE"
                  ELSE "hook error"]
    ELSE CallFrom(fn, i + 1, Append(done, fn[i].owner))

Call(fn) == CallFrom(fn, 1, << >>)

\* cobra's pre-run step for a command: from the command upwards, the first
\* PersistentPreRunE or else PersistentPreRun found is called, and no other.
PersistentPreRunOf(cmd, parent) ==
    IF cmd.PersistentPreRunE # NilHook THEN Call(cmd.PersistentPreRunE)
    ELSE IF cmd.PersistentPreRun # NilHook THEN Call(cmd.PersistentPreRun)
    ELSE IF ~cmd.hasParent THEN Call(NilHook)
    ELSE IF parent.PersistentPreRunE # NilHook THEN Call(parent.PersistentPreRunE)
    ELSE Call(parent.PersistentPreRun)

-----------------------------------------------------------------------------
(* initial states *)

TypeIdle ==
    /\ typeIn = [dataType |-> << >>, numericScale |-> NullInt64, parameterized |-> FALSE]
    /\ typeOp = "done"
    /\ columnType = "none"

NoOperation ==
    /\ lastOp = "none"
    /\ lastArgs = << >>
    /\ lastRet = << >>
    /\ lastCalls = << >>

\* No run of the start command.
StartIdle ==
    /\ flags = << >>
    /\ env = << >>
    /\ pc = "done"
    /\ gw = NilConfig
    /\ created = << >>
    /\ a = NilREST
    /\ srv = NilMCP
    /\ mux = {}
    /\ serverAddresses = << >>
    /\ events = << >>
    /\ exit = ""

\* No connection entry to decode.
ConfigIdle ==
    /\ node = Sequence
    /\ decoded = [done |-> TRUE, c |-> ZeroConfig, err |-> NoError]
    /\ dsn = [done |-> TRUE, dsn |-> ""]

\* No MCP server.
McpIdle ==
    /\ session = "Closed"
    /\ registry = [set |-> TRUE, endpoints |-> << >>, tools |-> << >>]
    /\ response = NoResponse
    /\ queries = << >>

\* No commands.
CmdIdle ==
    /\ parentCmd = NoCommand
    /\ childCmd = NoCommand
    /\ ran = NotRun

OtherIdle == ConfigIdle /\ McpIdle /\ CmdIdle

ConnIdle ==
    /\ config = DefaultConfig
    /\ showColumns = AllShowColumns
    /\ tables = << >>
    /\ rowCount = 0
    /\ NoOperation

\* One input of the type mapping.
TypeInit ==
    /\ typeIn \in TypeInputs
    /\ typeOp = "none"
    /\ columnType = "none"
    /\ ConnIdle
    /\ StartIdle
    /\ OtherIdle

\* A schema for Discovery.
DiscoveryInit ==
    /\ TypeIdle
    /\ config = DefaultConfig
    /\ showColumns \in ShowColumnSets
    /\ tables \in Schemas
    /\ rowCount = 0
    /\ NoOperation
    /\ StartIdle
    /\ OtherIdle

\* The Snowflake account and a schema of tables with and without row counts.
RowCountInit ==
    /\ TypeIdle
    /\ config = DefaultConfig
    /\ showColumns \in ShowColumnSets
    /\ tables \in RowCountSchemas
    /\ rowCount = 0
    /\ NoOperation
    /\ StartIdle
    /\ OtherIdle

\* One table for LoadsColumns, with every answer to its two queries.
ColumnsInit ==
    /\ TypeIdle
    /\ config = DefaultConfig
    /\ showColumns = AllShowColumns
    /\ \E c \in ColsOutcomes, k \in PkOutcomes :
            tables = <<[NormalTable(T_ab) EXCEPT !.cols = c, !.pk = k]>>
    /\ rowCount = 0
    /\ NoOperation
    /\ StartIdle
    /\ OtherIdle

\* A data table for Query, Sample and Ping, read-only or not.
QueryInit ==
    /\ TypeIdle
    /\ \E ro \in BOOLEAN : config = [DefaultConfig EXCEPT !.IsReadonly = ro]
    /\ showColumns = AllShowColumns
    /\ tables = <<NormalTable(T_ab)>>
    /\ rowCount \in 0..MaxRows
    /\ NoOperation
    /\ StartIdle
    /\ OtherIdle

\* One run of the start command.
StartInit ==
    /\ TypeIdle
    /\ ConnIdle
    /\ OtherIdle
    /\ flags \in FlagSets
    /\ env \in Envs
    /\ pc = "config"
    /\ gw = NilConfig
    /\ created = << >>
    /\ a = NilREST
    /\ srv = NilMCP
    /\ mux = {}
    /\ serverAddresses = << >>
    /\ events = << >>
    /\ exit = ""

\* A connection entry to decode into a fresh Config.
ConfigInit ==
    /\ TypeIdle
    /\ ConnIdle
    /\ StartIdle
    /\ McpIdle
    /\ CmdIdle
    /\ node \in YamlNodes
    /\ decoded = [done |-> FALSE, c |-> ZeroConfig, err |-> NoError]
    /\ dsn = [done |-> FALSE, dsn |-> ""]

\* An MCP server as New makes it, and a fresh session.
McpInit ==
    /\ TypeIdle
    /\ ConnIdle
    /\ StartIdle
    /\ ConfigIdle
    /\ CmdIdle
    /\ session = "Fresh"
    /\ registry = [set |-> FALSE, endpoints |-> << >>, tools |-> << >>]
    /\ response = NoResponse
    /\ queries = << >>

\* Two commands with their declared hooks, the child not yet registered.
CmdInit ==
    /\ TypeIdle
    /\ ConnIdle
    /\ StartIdle
    /\ ConfigIdle
    /\ McpIdle
    /\ parentCmd \in Commands("parent")
    /\ childCmd \in Commands("child")
    /\ ran = NotRun

\* The connector as a whole: a few schemas, a few rows.
Init ==
    /\ TypeIdle
    /\ \E ro \in BOOLEAN : config = [DefaultConfig EXCEPT !.IsReadonly = ro]
    /\ showColumns = AllShowColumns
    /\ tables \in { << >>,
                    <<NormalTable(T_ab)>>,
                    <<NormalTable(T_AB),
                      [NormalTable(T_Cd) EXCEPT !.rows = ValidString(<<"0">>)]>> }
    /\ rowCount = 1
    /\ NoOperation
    /\ StartIdle
    /\ OtherIdle

-----------------------------------------------------------------------------
(* the operations *)

Returned(op, args, value, err, calls) ==
    /\ lastOp' = op
    /\ lastArgs' = args
    /\ lastRet' = [value |-> value, err |-> err]
    /\ lastCalls' = calls

\* GuessColumnType applied to the type name.
GuessStep ==
    /\ typeOp = "none"
    /\ typeOp' = "GuessColumnType"
    /\ columnType' = GuessColumnType(typeIn.dataType)
    /\ UNCHANGED <<typeIn, connVars, startVars, otherVars>>

\* The type step of LoadsColumns applied to one row of the column query.
LoadsColumnsTypeStep ==
    /\ typeOp = "none"
    /\ ~typeIn.parameterized
    /\ typeOp' = "LoadsColumns"
    /\ columnType' = LoadsColumnType(typeIn.dataType, typeIn.numericScale)
    /\ UNCHANGED <<typeIn, connVars, startVars, otherVars>>

PingOp ==
    \E ctx \in Ctxs, outcome \in {"ok", "queryFails"} :
        LET r == Ping(ctx, outcome) IN
        /\ Returned("Ping", [ctx |-> ctx, outcome |-> outcome], << >>, r.err, r.calls)
        /\ UNCHANGED <<typeVars, startVars, otherVars, config, showColumns, tables, rowCount>>

QueryOp ==
    \E ctx \in Ctxs, endpoint \in Endpoints, params \in RawParams, outcome \in DriverOutcomes :
        LET r == Query(ctx, endpoint, params, outcome) IN
        /\ Returned("Query",
                    [ctx |-> ctx, endpoint |-> endpoint, params |-> params,
                     outcome |-> outcome, rowsBefore |-> rowCount],
                    r.value, r.err, r.calls)
        /\ rowCount' = r.rowCount
        /\ UNCHANGED <<typeVars, startVars, otherVars, config, showColumns, tables>>

SampleOp ==
    \E ctx \in Ctxs, name \in {T_ab, T_Cd}, outcome \in DriverOutcomes :
        LET r == Sample(ctx, [Name |-> name], outcome) IN
        /\ Returned("Sample", [ctx |-> ctx, table |-> name, outcome |-> outcome],
                    r.value, r.err, r.calls)
        /\ UNCHANGED <<typeVars, startVars, otherVars, config, showColumns, tables, rowCount>>

DiscoveryOp ==
    \E ctx \in Ctxs, tablesList \in FilterLists, showFails \in BOOLEAN :
        LET r == Discovery(ctx, tablesList, showFails) IN
        /\ showFails => ctx = NoCancel
        /\ Returned("Discovery",
                    [ctx |-> ctx, tablesList |-> tablesList, showFails |-> showFails],
                    r.tables, r.err, r.calls)
        /\ UNCHANGED <<typeVars, startVars, otherVars, config, showColumns, tables, rowCount>>

LoadsColumnsOp ==
    \E ctx \in Ctxs, tableName \in {T_ab, T_Cd} :
        LET r == LoadsColumns(ctx, tableName, << >>) IN
        /\ Returned("LoadsColumns", [ctx |-> ctx, tableName |-> tableName],
                    r.columns, r.err, r.calls)
        /\ UNCHANGED <<typeVars, startVars, otherVars, config, showColumns, tables, rowCount>>

-----------------------------------------------------------------------------
(* StartCommand's RunE, statement by statement *)

\* RunE returns err, or the process exits.
Ends(how) ==
    /\ exit' = how
    /\ pc' = "done"

Goes(next, event) ==
    /\ pc' = next
    /\ events' = Append(events, event)
    /\ exit' = exit

\* The routes RegisterRoutes mounts (REST Generator): a route per endpoint,
\* the OpenAPI document, Swagger UI unless disabled, the raw envelope in raw
\* mode.
RegisterRoutes(cfg, prefix, disableSwagger, rawMode) ==
    {[prefix |-> prefix, path |-> cfg.Endpoints[i]] : i \in DOMAIN cfg.Endpoints}
        \cup {[prefix |-> prefix, path |-> "openapi.json"]}
        \cup (IF disableSwagger THEN {} ELSE {[prefix |-> prefix, path |-> "swagger"]})
        \cup (IF rawMode THEN {[prefix |-> prefix, path |-> "raw"]} ELSE {})

\* Lines 63-93: the configuration, from the flags or from the YAML file.
LoadConfig ==
    /\ pc = "config"
    /\ UNCHANGED <<typeVars, connVars, otherVars, flags, env, created, a, srv, mux, serverAddresses>>
    /\ IF flags.dbDSN # << >>
       THEN /\ gw' = [Type |-> IF flags.typ = << >> THEN SplitFirst(flags.dbDSN, ":")
                               ELSE flags.typ,
                      Connection |-> [conn_string |-> flags.dbDSN,
                                      is_readonly |-> flags.roMode],
                      Endpoints |-> << >>,
                      Plugins |-> 0]
            /\ Goes("rest", "config")
       ELSE IF env.failAt = "os.ReadFile"
       THEN gw' = gw /\ events' = events /\ Ends("unable to read yaml config file")
       ELSE IF env.failAt = "FromYaml"
       THEN gw' = gw /\ events' = events /\ Ends("unable to parse config file")
       ELSE /\ gw' = [Type |-> S_snowflake,
                      Connection |-> [conn_string |-> << >>, is_readonly |-> FALSE],
                      Endpoints |-> env.endpoints,
                      Plugins |-> env.enrichers]
            /\ Goes("rest", "config")

\* Lines 94-102: restgenerator.New(*gw, prefix). The generator is given the
\* configuration and makes the connector it dispatches to.
NewREST ==
    /\ pc = "rest"
    /\ UNCHANGED <<typeVars, connVars, otherVars, flags, env, gw, srv, mux, serverAddresses>>
    /\ LET made == ConnectorsNew(gw.Type, gw.Connection, created,
                                 env.failAt = "restgenerator.New connector")
       IN IF ~made.ok
          THEN /\ UNCHANGED <<created, a, events>>
               /\ Ends("Failed to initialize database connector")
          ELSE IF env.failAt = "restgenerator.New"
          THEN /\ created' = Append(created, made.connector)
               /\ UNCHANGED <<a, events>>
               /\ Ends("Failed to initialize REST API generator")
          ELSE /\ created' = Append(created, made.connector)
               /\ a' = [made |-> TRUE, connector |-> made.connector.id]
               /\ Goes("addresses", "restgenerator.New")

\* ServerAddresses without the default for an empty list.
ServerAddresses_noDefault ==
    /\ pc = "addresses"
    /\ UNCHANGED <<typeVars, connVars, otherVars, flags, env, gw, created, a, srv, mux>>
    /\ LET additionalServers == Split(flags.servers, ",")
       IN serverAddresses' =
            IF flags.servers # << >>
            THEN [i \in DOMAIN additionalServers |-> TrimSpace(additionalServers[i])]
            ELSE << >>
    /\ Goes("routes", "serverAddresses")

\* Lines 104-124: the list of server addresses.
ServerAddresses ==
    /\ pc = "addresses"
    /\ UNCHANGED <<typeVars, connVars, otherVars, flags, env, gw, created, a, srv, mux>>
    /\ LET additionalServers == Split(flags.servers, ",")
           fromFlag == IF flags.servers # << >>
                       THEN [i \in DOMAIN additionalServers |-> TrimSpace(additionalServers[i])]
                       ELSE << >>
       IN serverAddresses' =
            IF Len(fromFlag) = 0
            THEN IF HasPrefix(flags.addr, <<":">>)
                 THEN << <<"http://localhost">> \o flags.addr >>
                 ELSE << <<"http://">> \o flags.addr >>
            ELSE fromFlag
    /\ Goes("routes", "serverAddresses")

\* MountRoutes that goes on when RegisterRoutes returns an error.
MountRoutes_ignoreError ==
    /\ pc = "routes"
    /\ UNCHANGED <<typeVars, connVars, otherVars, flags, env, gw, created, a, srv, serverAddresses>>
    /\ IF env.failAt = "RegisterRoutes"
       THEN UNCHANGED <<mux, events, exit>> /\ pc' = "mcp"
       ELSE /\ mux' = mux \cup RegisterRoutes(gw, flags.prefix, flags.disableSwagger,
                                             flags.rawMode)
            /\ Goes("mcp", "RegisterRoutes")

\* Lines 126-128: a.RegisterRoutes(mux, disableSwagger, rawMode, ...)
MountRoutes ==
    /\ pc = "routes"
    /\ UNCHANGED <<typeVars, connVars, otherVars, flags, env, gw, created, a, srv, serverAddresses>>
    /\ IF env.failAt = "RegisterRoutes"
       THEN UNCHANGED <<mux, events>> /\ Ends("RegisterRoutes")
       ELSE /\ mux' = mux \cup RegisterRoutes(gw, flags.prefix, flags.disableSwagger,
                                             flags.rawMode)
            /\ Goes("mcp", "RegisterRoutes")

\* Lines 132-135: mcpgenerator.New(gw.Plugins)
NewMCP ==
    /\ pc = "mcp"
    /\ UNCHANGED <<typeVars, connVars, otherVars, flags, env, gw, created, a, mux, serverAddresses>>
    /\ IF env.failAt = "mcpgenerator.New"
       THEN UNCHANGED <<srv, events>> /\ Ends("unable to init mcp generator")
       ELSE /\ srv' = [NilMCP EXCEPT !.made = TRUE]
            /\ Goes("connector", "mcpgenerator.New")

\* Lines 136-139: connectors.New(gw.Database.Type, gw.Database.Connection)
NewConnector ==
    /\ pc = "connector"
    /\ UNCHANGED <<typeVars, connVars, otherVars, flags, env, gw, a, srv, mux, serverAddresses>>
    /\ LET made == ConnectorsNew(gw.Type, gw.Connection, created,
                                 env.failAt = "connectors.New")
       IN IF ~made.ok
          THEN UNCHANGED <<created, events>> /\ Ends("unable to init connector")
          ELSE /\ created' = Append(created, made.connector)
               /\ Goes("setConnector", "connectors.New")

\* Lines 140-142: srv.SetConnector(connector); connector is the one line 136
\* made, the last created.
SetConnector ==
    /\ pc = "setConnector"
    /\ UNCHANGED <<typeVars, connVars, otherVars, flags, env, gw, created, a, mux, serverAddresses>>
    /\ IF env.failAt = "SetConnector"
       THEN UNCHANGED <<srv, events>> /\ Ends("unable to set connector")
       ELSE /\ srv' = [srv EXCEPT !.connector = created[Len(created)].id]
            /\ Goes("raw", "SetConnector")

\* EnableRawProtocol without the rawMode test.
EnableRawProtocol_always ==
    /\ pc = "raw"
    /\ UNCHANGED <<typeVars, connVars, otherVars, flags, env, gw, created, a, mux, serverAddresses>>
    /\ srv' = [srv EXCEPT !.raw = TRUE] /\ Goes("tools", "EnableRawProtocol")

\* Lines 144-146: if rawMode { srv.EnableRawProtocol() }
EnableRawProtocol ==
    /\ pc = "raw"
    /\ UNCHANGED <<typeVars, connVars, otherVars, flags, env, gw, created, a, mux, serverAddresses>>
    /\ IF flags.rawMode
       THEN srv' = [srv EXCEPT !.raw = TRUE] /\ Goes("tools", "EnableRawProtocol")
       ELSE UNCHANGED <<srv, events, exit>> /\ pc' = "tools"

\* Lines 147-150: srv.SetTools(allEndpoints) when there are endpoints
SetTools ==
    /\ pc = "tools"
    /\ UNCHANGED <<typeVars, connVars, otherVars, flags, env, gw, created, a, mux, serverAddresses>>
    /\ IF Len(gw.Endpoints) > 0
       THEN srv' = [srv EXCEPT !.tools = gw.Endpoints] /\ Goes("protocols", "SetTools")
       ELSE UNCHANGED <<srv, events, exit>> /\ pc' = "protocols"

\* Lines 151-153: logrus.Fatal when neither protocol is enabled
CheckProtocols ==
    /\ pc = "protocols"
    /\ UNCHANGED <<typeVars, connVars, otherVars, flags, env, gw, created, a, srv, mux,
                   serverAddresses, events>>
    /\ IF ~flags.enableRestAPI /\ ~flags.enableMCP
       THEN Ends("fatal: nothing to start")
       ELSE pc' = "plugins" /\ exit' = exit

\* EnrichMCP that goes on when the enrichers cannot be loaded.
EnrichMCP_ignoreLoadError ==
    /\ pc = "plugins"
    /\ UNCHANGED <<typeVars, connVars, otherVars, flags, env, gw, created, a, mux, serverAddresses>>
    /\ IF ~flags.enableMCP
       THEN UNCHANGED <<srv, events, exit>> /\ pc' = "listen"
       ELSE IF env.failAt = "plugins.Plugins"
       THEN UNCHANGED <<srv, events, exit>> /\ pc' = "sse"
       ELSE srv' = [srv EXCEPT !.enriched = gw.Plugins] /\ Goes("sse", "EnrichMCP")

\* Lines 156-163: with MCP enabled, the enrichers are loaded and each is
\* applied to srv.
EnrichMCP ==
    /\ pc = "plugins"
    /\ UNCHANGED <<typeVars, connVars, otherVars, flags, env, gw, created, a, mux, serverAddresses>>
    /\ IF ~flags.enableMCP
       THEN UNCHANGED <<srv, events, exit>> /\ pc' = "listen"
       ELSE IF env.failAt = "plugins.Plugins"
       THEN UNCHANGED <<srv, events>> /\ Ends("unable to load plugins")
       ELSE srv' = [srv EXCEPT !.enriched = gw.Plugins] /\ Goes("sse", "EnrichMCP")

\* Lines 164-169: srv.ServeSSE(serverAddresses[0], prefix), mounted at
\* {prefix}/sse and {prefix}/message. Indexing an empty list panics.
ServeSSE ==
    /\ pc = "sse"
    /\ UNCHANGED <<typeVars, connVars, otherVars, flags, env, gw, created, a, srv, serverAddresses>>
    /\ IF Len(serverAddresses) = 0
       THEN UNCHANGED <<mux, events>> /\ Ends("panic: index out of range")
       ELSE /\ mux' = mux \cup {[prefix |-> flags.prefix, path |-> "sse"],
                                [prefix |-> flags.prefix, path |-> "message"]}
            /\ Goes("listen", "ServeSSE")

\* Line 179: http.ListenAndServe(addr, mux)
ListenAndServe ==
    /\ pc = "listen"
    /\ UNCHANGED <<typeVars, connVars, otherVars, flags, env, gw, created, a, srv, mux, serverAddresses>>
    /\ events' = Append(events, "ListenAndServe")
    /\ Ends("listening")

\* yaml.v3 calls UnmarshalYAML on the connection entry.
DecodeConfig ==
    /\ ~decoded.done
    /\ LET r == UnmarshalYAML(decoded.c, node)
       IN decoded' = [done |-> TRUE, c |-> r.c, err |-> r.err]
    /\ UNCHANGED <<typeVars, connVars, startVars, mcpVars, cmdVars, node, dsn>>

\* The factory calls cfg.MakeDSN() on the decoded Config (line 25).
CallMakeDSN ==
    /\ decoded.done /\ decoded.err = NoError
    /\ ~dsn.done
    /\ dsn' = [done |-> TRUE, dsn |-> MakeDSN(decoded.c)]
    /\ UNCHANGED <<typeVars, connVars, startVars, mcpVars, cmdVars, node, decoded>>

ConfigNext == DecodeConfig \/ CallMakeDSN

\* Decoding one connection entry and making its DSN.
SpecConfig == ConfigInit /\ [][ConfigNext]_vars

\* srv.SetTools(endpoints): the registry is installed once.
InstallTools ==
    /\ session # "Closed"
    /\ ~registry.set
    /\ \E endpoints \in EndpointLists :
            registry' = [set |-> TRUE, endpoints |-> endpoints, tools |-> ToolsOf(endpoints)]
    /\ UNCHANGED <<typeVars, connVars, startVars, configVars, cmdVars, session, response, queries>>

\* srv.Server().HandleMessage(ctx, request)
Handle ==
    /\ session # "Closed"
    /\ \E id \in RequestIds, method \in Methods, tool \in {"test_method", "list_employees", "drop"} :
            LET r == HandleMessage(id, method, tool) IN
            /\ method = "tools/call" => Len(queries) < MaxToolCalls
            /\ session' = r.session
            /\ response' = r.response
            /\ queries' = r.queries
    /\ UNCHANGED <<typeVars, connVars, startVars, configVars, cmdVars, registry>>

McpNext == InstallTools \/ Handle

\* RegisterCommand(parent, child), once.
RegisterCommandOp ==
    /\ ~childCmd.hasParent
    /\ childCmd' = RegisterCommand(parentCmd, childCmd)
    /\ UNCHANGED <<typeVars, connVars, startVars, configVars, mcpVars, parentCmd, ran>>

\* The child command is executed: its pre-run step.
ExecuteChild ==
    /\ LET r == PersistentPreRunOf(childCmd, parentCmd)
       IN ran' = [cmd |-> "child", registered |-> childCmd.hasParent,
                  hooks |-> r.hooks, err |-> r.err]
    /\ UNCHANGED <<typeVars, connVars, startVars, configVars, mcpVars, parentCmd, childCmd>>

\* The parent command is executed: its pre-run step.
ExecuteParent ==
    /\ LET r == PersistentPreRunOf(parentCmd, NoCommand)
       IN ran' = [cmd |-> "parent", registered |-> childCmd.hasParent,
                  hooks |-> r.hooks, err |-> r.err]
    /\ UNCHANGED <<typeVars, connVars, startVars, configVars, mcpVars, parentCmd, childCmd>>

CmdNext == RegisterCommandOp \/ ExecuteChild \/ ExecuteParent

\* Two commands, RegisterCommand and their execution.
SpecCmd == CmdInit /\ [][CmdNext]_vars

\* The MCP server and one session.
SpecMCP == McpInit /\ [][McpNext]_vars

TypeNext == GuessStep \/ LoadsColumnsTypeStep

Next == PingOp \/ QueryOp \/ DiscoveryOp \/ LoadsColumnsOp \/ SampleOp

QueryNext == QueryOp \/ SampleOp \/ PingOp

\* The type mapping: one input, one application.
SpecTypes == TypeInit /\ [][TypeNext]_vars

\* Discovery over the schemas.
SpecDiscovery == DiscoveryInit /\ [][DiscoveryOp]_vars

\* Discovery over tables with and without row counts.
SpecRowCount == RowCountInit /\ [][DiscoveryOp]_vars

\* LoadsColumns over the answers to its two queries.
SpecColumns == ColumnsInit /\ [][LoadsColumnsOp]_vars

\* Query, Sample and Ping over a data table.
SpecQuery == QueryInit /\ [][QueryNext]_vars

\* Every operation of the connector.
Spec == Init /\ [][Next]_vars

StartNext ==
    \/ LoadConfig \/ NewREST \/ ServerAddresses \/ MountRoutes \/ NewMCP
    \/ NewConnector \/ SetConnector \/ EnableRawProtocol \/ SetTools
    \/ CheckProtocols \/ EnrichMCP \/ ServeSSE \/ ListenAndServe

\* One run of the start command.
SpecStart == StartInit /\ [][StartNext]_vars

-----------------------------------------------------------------------------
(* claims about the type mapping, checked under SpecTypes *)

\* The text names NUMBER, DECIMAL or NUMERIC, bare or with a precision.
IsDecimalName(text) ==
    \E b \in DecimalNames :
        \/ ToUpper(text) = b
        \/ HasPrefix(ToUpper(text), b \o <<"(">>)

\* The type the scale rule asks for.
TypeForScale(numericScale) ==
    IF numericScale.Int64 = 0 THEN TypeInteger ELSE TypeNumber

\* C6: a NUMBER, DECIMAL or NUMERIC column with scale 0 is reported as
\* integer and with a scale above 0 as number, both for a bare name with a
\* NUMERIC_SCALE in LoadsColumns and for a parameterized name in
\* GuessColumnType.
C6_ScaleDecidesDecimalType ==
    /\ (typeOp = "LoadsColumns" /\ IsDecimalName(typeIn.dataType)
            /\ typeIn.numericScale.Valid)
         => columnType = TypeForScale(typeIn.numericScale)
    /\ (typeOp = "GuessColumnType" /\ typeIn.parameterized
            /\ IsDecimalName(typeIn.dataType))
         => columnType = TypeForScale(typeIn.numericScale)

\* The type the families of the mapping table give a name, by its upper-case
\* form; "none" for NUMBER, DECIMAL, NUMERIC and for a name of no family.
FamilyType(upperName) ==
    CASE upperName \in DatetimeNames -> TypeDatetime
      [] upperName \in {S_VARIANT, S_OBJECT} -> TypeObject
      [] upperName = S_ARRAY -> TypeArray
      [] upperName \in BooleanNames -> TypeBoolean
      [] upperName \in IntegerNames -> TypeInteger
      [] upperName \in FloatNames -> TypeNumber
      [] upperName \in StringNames -> TypeString
      [] OTHER -> "none"

\* C7: GuessColumnType gives every name of a family, in any letter case,
\* the logical type of that family (date/time, variant/object, array,
\* boolean, integer, float, character).
C7_FamilyNamesRoundTrip ==
    (typeOp = "GuessColumnType" /\ FamilyType(ToUpper(typeIn.dataType)) # "none")
        => columnType = FamilyType(ToUpper(typeIn.dataType))

\* A lower-case date/time name with an underscore has been mapped.
C7_Witness ==
    /\ typeOp = "GuessColumnType"
    /\ typeIn.dataType = <<"t","i","m","e","s","t","a","m","p","_","n","t","z">>
    /\ columnType = TypeDatetime

\* The text matches none of the tests of GuessColumnType.
Unrecognised(text) ==
    LET u == ToUpper(text) IN
    /\ ~Contains(u, S_ARRAY) /\ ~Contains(u, S_OBJECT) /\ ~Contains(u, S_VARIANT)
    /\ u \notin FamilyNames
    /\ ~HasPrefix(u, S_NUMBER_PAREN)

\* C8: GuessColumnType returns one of the seven logical types for every
\* text, and string for every text it does not recognise.
C8_GuessColumnTypeTotal ==
    typeOp = "GuessColumnType"
        => /\ columnType \in ColumnTypes
           /\ Unrecognised(typeIn.dataType) => columnType = TypeString

\* The empty text has been mapped to string.
C8_Witness ==
    /\ typeOp = "GuessColumnType"
    /\ typeIn.dataType = << >>
    /\ columnType = TypeString

-----------------------------------------------------------------------------
(* claims about Discovery, checked under SpecDiscovery *)

\* Whether the table's name equals an entry of the filter list when both are
\* written in upper case.
NameInFilter(table, tablesList) ==
    \E i \in DOMAIN tablesList : ToUpper(table.Name) = ToUpper(tablesList[i])

\* C1: Discovery(ctx, F) returns exactly the tables of Discovery(ctx, nil)
\* whose name equals an entry of F when both are compared in upper case, in
\* the same order, and fails exactly when Discovery(ctx, nil) fails; an empty
\* F returns all the tables.
C1_DiscoveryFilter ==
    lastOp = "Discovery" =>
        LET all == Discovery(lastArgs.ctx, << >>, lastArgs.showFails)
            Match(table) == NameInFilter(table, lastArgs.tablesList)
        IN /\ lastRet.err = all.err
           /\ lastRet.value = IF Len(lastArgs.tablesList) = 0 THEN all.tables
                              ELSE SelectSeq(all.tables, Match)

\* A filter entry written cD selects the table Cd out of the two that the
\* unfiltered Discovery returns.
C1_Witness ==
    /\ lastOp = "Discovery"
    /\ lastArgs.tablesList = << <<"c","D">> >>
    /\ lastRet.err = NoError
    /\ Len(lastRet.value) = 1
    /\ lastRet.value[1].Name = T_Cd
    /\ Len(Discovery(lastArgs.ctx, << >>, lastArgs.showFails).tables) = 2

\* A row of SHOW TABLES as the Snowflake version returns it: dropped when it
\* has a non-empty dropped_on, external when its is_external is Y, named when
\* its name is not NULL.
RowDropped(row) ==
    "dropped_on" \in showColumns /\ row.dropped_on.Valid /\ row.dropped_on.String # << >>

RowExternal(row) ==
    "is_external" \in showColumns /\ row.is_external.Valid
        /\ row.is_external.String = <<"Y">>

RowNamed(row) == "name" \in showColumns /\ row.name.Valid

\* C11: a Discovery that succeeds returns one Table for each named row of
\* SHOW TABLES that is neither dropped nor external (and that the filter list,
\* if any, selects), in the rows' order, and no Table for any other row.
C11_NoDroppedNoExternal ==
    (lastOp = "Discovery" /\ lastRet.err = NoError) =>
        LET Kept(row) == RowNamed(row) /\ ~RowDropped(row) /\ ~RowExternal(row)
            Selected(row) ==
                /\ Kept(row)
                /\ \/ Len(lastArgs.tablesList) = 0
                   \/ NameInFilter([Name |-> row.name.String], lastArgs.tablesList)
            kept == SelectSeq(tables, Selected)
        IN /\ Len(lastRet.value) = Len(kept)
           /\ \A i \in DOMAIN kept : lastRet.value[i].Name = kept[i].name.String

\* An external table before a plain one: only the plain one is returned.
C11_Witness ==
    /\ lastOp = "Discovery"
    /\ lastRet.err = NoError
    /\ Len(lastArgs.tablesList) = 0
    /\ Len(tables) = 2
    /\ RowExternal(tables[1]) /\ RowNamed(tables[1]) /\ ~RowDropped(tables[1])
    /\ Len(lastRet.value) = 1
    /\ lastRet.value[1].Name = T_Cd

-----------------------------------------------------------------------------
(* claims about Query, checked under SpecQuery *)

ErrReadonly == "ErrReadonly"

\* C2: on a connector configured read-only, Query on a mutating statement
\* fails with ErrReadonly and leaves the table's rows as they were.
C2_ReadonlyRejectsMutation ==
    (lastOp = "Query" /\ config.IsReadonly /\ Mutating(lastArgs.endpoint.Query)) =>
        /\ lastRet.err = ErrReadonly
        /\ rowCount = lastArgs.rowsBefore

\* C10: Query coerces, then executes: when ParamsE fails, Query fails and the
\* driver is not called and the table is untouched; otherwise the driver is
\* called once, with the endpoint's SQL text and the mapping ParamsE made,
\* which holds the declared parameters only.
C10_QueryCoerceThenExecute ==
    lastOp = "Query" =>
        LET endpoint == lastArgs.endpoint
            processed == ParamsE(endpoint, lastArgs.params)
        IN IF processed.err # NoError
           THEN /\ lastRet.err # NoError
                /\ lastRet.value = << >>
                /\ lastCalls = << >>
                /\ rowCount = lastArgs.rowsBefore
           ELSE /\ Len(lastCalls) = 1
                /\ lastCalls[1].sql = endpoint.Query
                /\ lastCalls[1].arg = processed.value
                /\ DOMAIN lastCalls[1].arg
                        = {endpoint.Params[i].Name : i \in DOMAIN endpoint.Params}

\* A request with a key the endpoint does not declare: the driver gets the
\* declared, coerced parameter only.
C10_Witness ==
    /\ lastOp = "Query"
    /\ DOMAIN lastArgs.params = {"user_id", "limit"}
    /\ lastArgs.endpoint.Query = "SELECT ID, NAME FROM employees WHERE ID = :user_id"
    /\ lastRet.err = NoError
    /\ Len(lastCalls) = 1
    /\ DOMAIN lastCalls[1].arg = {"user_id"}
    /\ lastCalls[1].arg["user_id"] = Coerced(TypeInteger, "1")

-----------------------------------------------------------------------------
(* claims about every operation, checked under Spec *)

\* C3: every driver call of an operation is given the caller's ctx.
C3_EveryDriverCallCarriesCtx ==
    \A i \in DOMAIN lastCalls : lastCalls[i].ctx

-----------------------------------------------------------------------------
(* claims about LoadsColumns, checked under SpecColumns *)

\* The column query of the last LoadsColumns succeeded: it was started before
\* ctx was cancelled, the driver answered, and every row was scanned.
ColumnQuerySucceeded ==
    LET cat == Catalog(lastArgs.tableName)
    IN /\ ~CtxDone(lastArgs.ctx, << >>)
       /\ ~cat.cols.err
       /\ \A i \in DOMAIN cat.cols.rows : cat.cols.rows[i].scanOk

\* Key detection failed: SHOW PRIMARY KEYS was cancelled or failed, or one of
\* its rows could not be scanned.
KeyDetectionFailed ==
    LET cat == Catalog(lastArgs.tableName)
    IN \/ CtxDone(lastArgs.ctx, <<1>>)
       \/ cat.pk.err
       \/ \E i \in DOMAIN cat.pk.rows : ~cat.pk.rows[i].scanOk

\* C9: when the column query succeeds, LoadsColumns returns its columns in
\* order and no error, whatever SHOW PRIMARY KEYS does; when key detection
\* fails no column is reported as a primary key.
C9_KeyDetectionAdvisory ==
    (lastOp = "LoadsColumns" /\ ColumnQuerySucceeded) =>
        LET rows == Catalog(lastArgs.tableName).cols.rows
        IN /\ lastRet.err = NoError
           /\ Len(lastRet.value) = Len(rows)
           /\ \A i \in DOMAIN rows : lastRet.value[i].Name = rows[i].name
           /\ KeyDetectionFailed =>
                \A i \in DOMAIN lastRet.value : ~lastRet.value[i].PrimaryKey

-----------------------------------------------------------------------------
(* claims about the start command, checked under SpecStart *)

\* C4: a run of the start command creates one connector, never a second, and
\* once the server listens the REST generator and the MCP generator both use
\* that connector.
C4_OneConnectorShared ==
    /\ Len(created) <= 1
    /\ exit = "listening" =>
        /\ Len(created) = 1
        /\ a.connector = created[1].id
        /\ srv.connector = created[1].id

-----------------------------------------------------------------------------
(* claims about the connection entry, checked under SpecConfig *)

\* C12: a non-empty scalar text decodes without error into a Config whose
\* MakeDSN is that text; a mapping decodes without error into the Config of
\* its fields, whose MakeDSN is conn_string when that is non-empty and
\* otherwise user:password@account/database/schema?warehouse=..&role=..
C12_ConnectionShapes ==
    LET textGiven == node.kind = "scalar" /\ node.tag # "!!null" /\ node.text # ""
        f == node.fields
    IN /\ (decoded.done /\ (textGiven \/ node.kind = "mapping")) => decoded.err = NoError
       /\ (decoded.done /\ node.kind = "mapping") => decoded.c = f
       /\ (dsn.done /\ textGiven) => dsn.dsn = node.text
       /\ (dsn.done /\ node.kind = "mapping") =>
            dsn.dsn = IF f.ConnString # "" THEN f.ConnString
                      ELSE f.User \o ":" \o f.Password \o "@" \o f.Account \o "/"
                            \o f.Database \o "/" \o f.Schema \o "?warehouse="
                            \o f.Warehouse \o "&role=" \o f.Role

\* A connection entry written as a plain text, used as the DSN.
C12_Witness ==
    /\ dsn.done
    /\ node = Scalar("!!str", "snowflake://x")
    /\ decoded.c.ConnString = "snowflake://x"
    /\ dsn.dsn = "snowflake://x"

-----------------------------------------------------------------------------
(* claims about the MCP server, checked under SpecMCP *)

\* A tools/list handled by an initialized server after SetTools.
ToolsListedAfterSetTools ==
    /\ registry.set /\ registry' = registry
    /\ session = "Initialized"
    /\ response'.method = "tools/list"

-----------------------------------------------------------------------------
(* claims about start-up, checked under SpecStart *)

\* The place of a step in the run's record, 0 when the step did not act.
RECURSIVE IndexFrom(_, _, _)
IndexFrom(log, event, i) ==
    IF i > Len(log) THEN 0
    ELSE IF log[i] = event THEN i
    ELSE IndexFrom(log, event, i + 1)

IndexOf(log, event) == IndexFrom(log, event, 1)

Happened(event) == IndexOf(events, event) > 0

Before(first, second) ==
    Happened(first) /\ IndexOf(events, first) < IndexOf(events, second)

\* C14: the raw protocol is enabled only on an MCP server that has its
\* connector: EnableRawProtocol runs only after SetConnector succeeded, and
\* never when raw mode is disabled.
C14_RawOnlyWithConnector ==
    /\ srv.raw => srv.made /\ srv.connector # 0 /\ flags.rawMode
    /\ srv.raw <=> Happened("EnableRawProtocol")
    /\ Happened("EnableRawProtocol") => Before("SetConnector", "EnableRawProtocol")

C14_Witness ==
    /\ srv.raw /\ srv.connector # 0
    /\ flags.rawMode
    /\ exit = "listening"

SseMounted == [prefix |-> flags.prefix, path |-> "sse"] \in mux

\* C15: with MCP enabled, every enricher is applied to the server after
\* SetTools and before the SSE handlers are mounted; when the enrichers cannot
\* be loaded the run returns an error and never listens.
C15_EnrichersBetweenToolsAndSSE ==
    /\ Happened("EnrichMCP") =>
            /\ flags.enableMCP
            /\ srv.enriched = gw.Plugins
            /\ Happened("SetTools") => Before("SetTools", "EnrichMCP")
    /\ Happened("ServeSSE") => Before("EnrichMCP", "ServeSSE")
    /\ SseMounted => Happened("ServeSSE")
    /\ (flags.enableMCP /\ exit = "listening") => Happened("EnrichMCP") /\ SseMounted
    /\ (flags.enableMCP /\ env.failAt = "plugins.Plugins" /\ pc = "done") =>
            /\ exit \notin {"", "listening"}
            /\ ~Happened("EnrichMCP") /\ ~Happened("ServeSSE") /\ ~Happened("ListenAndServe")

C15_Witness ==
    /\ flags.enableMCP
    /\ gw.Plugins = MaxEnrichers /\ srv.enriched = MaxEnrichers
    /\ Before("SetTools", "EnrichMCP") /\ Before("EnrichMCP", "ServeSSE")
    /\ exit = "listening"

\* The errors RunE returns before it listens.
StartErrors ==
    { "unable to read yaml config file", "unable to parse config file",
      "Failed to initialize database connector", "Failed to initialize REST API generator",
      "RegisterRoutes", "unable to init mcp generator", "unable to init connector",
      "unable to set connector", "unable to load plugins" }

\* The step env.failAt names is one this run comes to: the YAML file is read
\* only without --connection-string, the enrichers are loaded only with MCP.
FailureMet ==
    \/ env.failAt \in {"os.ReadFile", "FromYaml"} /\ flags.dbDSN = << >>
    \/ env.failAt \in {"restgenerator.New connector", "restgenerator.New", "RegisterRoutes",
                       "mcpgenerator.New", "connectors.New", "SetConnector"}
    \/ env.failAt = "plugins.Plugins" /\ flags.enableMCP
                /\ (flags.enableRestAPI \/ flags.enableMCP)

InitSteps ==
    <<"config", "restgenerator.New", "RegisterRoutes", "mcpgenerator.New", "connectors.New",
      "SetConnector">>

\* C16: the run listens only after the configuration, the REST generator,
\* the routes, the MCP generator, the connector, SetConnector and the loading
\* of the enrichers succeeded; a failure of one of them ends the run with an
\* error and without listening.
C16_ListenOnlyAfterInit ==
    /\ Happened("ListenAndServe") =>
            /\ \A i \in DOMAIN InitSteps : Before(InitSteps[i], "ListenAndServe")
            /\ \A i \in 1..(Len(InitSteps) - 1) : Before(InitSteps[i], InitSteps[i + 1])
            /\ flags.enableMCP => Before("EnrichMCP", "ListenAndServe")
            /\ ~FailureMet
    /\ (pc = "done" /\ FailureMet) => exit \in StartErrors /\ ~Happened("ListenAndServe")
    /\ exit \in StartErrors => ~Happened("ListenAndServe")

C16_Witness ==
    /\ exit = "listening"
    /\ flags.dbDSN = << >> /\ flags.enableMCP /\ flags.enableRestAPI
    /\ Before("SetConnector", "ListenAndServe")
    /\ a.made /\ srv.made /\ srv.connector # 0

-----------------------------------------------------------------------------
(* claims about the MCP session, checked under SpecMCP *)

AnsweredWhileFresh ==
    /\ session = "Fresh"
    /\ <<session, response, queries>>' # <<session, response, queries>>

\* C18: a session in state Fresh answers every method but initialize, and
\* tools/call in particular, with -32002 and runs no query; initialize moves
\* it to Initialized.
C18_FreshRefusesAllButInitialize ==
    [][AnsweredWhileFresh =>
          /\ queries' = queries /\ queries = << >>
          /\ IF response'.method = "initialize"
             THEN session' = "Initialized" /\ response'.error = 0
             ELSE /\ session' = "Fresh"
                  /\ response'.error = ServerNotInitialized
                  /\ response'.tools = << >> /\ response'.called = ""]_vars

C18_Witness ==
    /\ session = "Fresh"
    /\ registry.set /\ Len(registry.tools) > 0
    /\ response.method = "tools/call" /\ response.error = ServerNotInitialized
    /\ queries = << >>

-----------------------------------------------------------------------------
(* claims about Sample, checked under SpecQuery *)

\* C19: Sample returns at most 5 rows, each a mapping from column to value;
\* when the query or the scan of a row fails it returns an error and no rows.
C19_SampleAtMostFive ==
    lastOp = "Sample" =>
        LET rows == lastRet.value
            failed == \/ lastArgs.outcome = "queryFails"
                      \/ lastArgs.outcome = "scanFails" /\ rowCount > 0
        IN /\ Len(rows) <= 5
           /\ \A i \in DOMAIN rows : DOMAIN rows[i] = {"ID"} /\ rows[i].ID = i
           /\ failed <=> lastRet.err # NoError
           /\ failed => rows = << >>
           /\ ~failed => Len(rows) = IF rowCount < 5 THEN rowCount ELSE 5

C19_Witness ==
    /\ lastOp = "Sample"
    /\ rowCount = MaxRows
    /\ lastRet.err = NoError
    /\ Len(lastRet.value) = SampleLimit

-----------------------------------------------------------------------------
(* claims about the row counts of Discovery, checked under SpecRowCount *)

\* The row count SHOW TABLES gives for a row, when it gives one.
MetadataAvailable(row) ==
    "rows" \in showColumns /\ row.rows.Valid /\ row.rows.String # << >>

MetadataRows(row) == SscanfInt(row.rows.String, 0)

RowOf(name) == tables[CHOOSE i \in DOMAIN tables : tables[i].name = ValidString(name)]

\* The place in lastCalls of the column query and of the COUNT(*) for a table.
CallIndex(fn, sql, name) ==
    LET hits == {i \in DOMAIN lastCalls : /\ lastCalls[i].fn = fn /\ lastCalls[i].sql = sql
                                          /\ lastCalls[i].arg = name}
    IN IF hits = {} THEN 0 ELSE CHOOSE i \in hits : \A j \in hits : i <= j

ColumnsLoadedAt(name) == CallIndex("QueryContext", "SELECT columns", name)

CountIssuedAt(name) == CallIndex("Get", "SELECT COUNT(*)", name)

\* C20: for every table returned the columns are loaded before the row
\* count; the row count is the one of the metadata when the metadata has it,
\* and COUNT(*) is issued only when it has not; no row count is negative; when
\* LoadsColumns or the COUNT(*) fails for a table, Discovery fails and returns
\* no table.
C20_ColumnsThenRowCount ==
    lastOp = "Discovery" =>
        LET Kept(row) == RowNamed(row) /\ ~RowDropped(row) /\ ~RowExternal(row)
            returned == lastRet.value
        IN /\ \A i \in DOMAIN returned :
                LET name == returned[i].Name
                    row == RowOf(name)
                IN /\ ColumnsLoadedAt(name) > 0
                   /\ returned[i].RowCount >= 0
                   /\ CountIssuedAt(name) > 0 => ColumnsLoadedAt(name) < CountIssuedAt(name)
                   /\ IF MetadataAvailable(row)
                      THEN returned[i].RowCount = MetadataRows(row)
                      ELSE returned[i].RowCount = row.count.n /\ CountIssuedAt(name) > 0
           /\ \A i \in DOMAIN tables :
                (Kept(tables[i]) /\ CountIssuedAt(tables[i].name.String) > 0)
                    => ~MetadataAvailable(tables[i])
           /\ \A i \in DOMAIN tables :
                (Kept(tables[i]) /\ tables[i].cols.err) => lastRet.err # NoError
           /\ \A i \in DOMAIN tables :
                (Kept(tables[i]) /\ ~MetadataAvailable(tables[i]) /\ tables[i].count.err)
                    => lastRet.err # NoError
           /\ lastRet.err # NoError => returned = << >>

-----------------------------------------------------------------------------
(* claims about RegisterCommand, checked under SpecCmd *)

\* The hook cobra would call for a command standing alone: its
\* PersistentPreRunE, or its PersistentPreRun when it has no PersistentPreRunE.
DeclaredHookOf(owner) ==
    LET dE == SelectSeq(IF owner = "parent" THEN parentCmd.PersistentPreRunE
                        ELSE childCmd.PersistentPreRunE,
                        LAMBDA h : h.owner = owner)
        d == IF owner = "parent" THEN parentCmd.PersistentPreRun ELSE childCmd.PersistentPreRun
    IN IF dE # NilHook THEN dE ELSE d

ChildRanAfterRegister == ran.cmd = "child" /\ ran.registered

\* C21: after RegisterCommand(parent, child) the child's pre-run step calls
\* the parent's hook and then the child's, each once; when the parent's hook
\* returns an error the child's is not called and the error is returned;
\* whether the child's hook is a PersistentPreRunE, a PersistentPreRun or
\* missing.
C21_ParentThenChildHook ==
    ChildRanAfterRegister =>
        LET p == DeclaredHookOf("parent")
            c == DeclaredHookOf("child")
            parentFails == p # NilHook /\ p[1].fails
            expected == (IF p # NilHook THEN <<"parent">> ELSE << >>)
                            \o (IF c # NilHook /\ ~parentFails THEN <<"child">> ELSE << >>)
        IN /\ ran.hooks = expected
           /\ parentFails => ran.err # NoError
           /\ (~parentFails /\ (c = NilHook \/ ~c[1].fails)) => ran.err = NoError

-----------------------------------------------------------------------------
(* claims about the surfaces served, checked under SpecStart *)

\* The routes of the configuration's endpoints that are on the mux.
EndpointRoutesMounted ==
    {r \in mux : \E i \in DOMAIN gw.Endpoints : r.path = gw.Endpoints[i]}

McpHandlersMounted == {r \in mux : r.path \in {"sse", "message"}}

\* C22: the REST endpoint routes are on the mux only when --rest-api is
\* true, the handlers {prefix}/sse and {prefix}/message only when --mcp is
\* true, and with both flags false the process stops without listening.
C22_SurfacesFollowFlags ==
    /\ EndpointRoutesMounted # {} => flags.enableRestAPI
    /\ McpHandlersMounted # {} => flags.enableMCP
    /\ (~flags.enableRestAPI /\ ~flags.enableMCP) =>
            /\ ~Happened("ListenAndServe")
            /\ exit # "listening"

\* The number of commas in a text.
Commas(text) == Cardinality({i \in DOMAIN text : text[i] = ","})

\* C23: the list of server addresses is not empty when the SSE server is
\* created, so serverAddresses[0] never fails; with --servers it is the
\* comma-separated entries, trimmed, in order; without, it is the one address
\* http://localhost<addr> when --addr begins with ":" and http://<addr>
\* otherwise.
C23_ServerAddressesNonEmpty ==
    /\ pc = "sse" => Len(serverAddresses) > 0
    /\ Happened("ServeSSE") => Len(serverAddresses) > 0
    /\ exit # "panic: index out of range"
    /\ Happened("serverAddresses") =>
            IF flags.servers # << >>
            THEN LET entries == Split(flags.servers, ",")
                 IN /\ Len(serverAddresses) = Commas(flags.servers) + 1
                    /\ Len(serverAddresses) = Len(entries)
                    /\ \A k \in DOMAIN serverAddresses :
                            LET e == serverAddresses[k]
                            IN /\ e = TrimSpace(entries[k])
                               /\ Commas(e) = 0
                               /\ e # << >> => e[1] # " " /\ e[Len(e)] # " "
            ELSE /\ Len(serverAddresses) = 1
                 /\ serverAddresses[1] =
                        IF flags.addr[1] = ":" THEN <<"http://localhost">> \o flags.addr
                        ELSE <<"http://">> \o flags.addr

C23_Witness ==
    /\ Happened("ServeSSE")
    /\ exit = "listening"
    /\ flags.servers = <<"h","1",","," ","h","2">>
    /\ serverAddresses = << <<"h","1">>, <<"h","2">> >>

=============================================================================
